---- MODULE Spec2Model ----
(***************************************************************************)
(* The in-memory mock document store (mockFirestore): a map from           *)
(* collection path to (document id -> fields), path-keyed listener sets,   *)
(* snapshot construction and the CRUD / subscribe / replaceCollection       *)
(* operations.  Line numbers in the comments refer to the TypeScript copy   *)
(* printed in src/README.md (lines 47-343); the JavaScript copy printed in  *)
(* src/frontend/src/App.tsx (lines 590-804) has the same statements.        *)
(***************************************************************************)
EXTENDS Integers, Sequences, FiniteSets, TLC

VARIABLES store, listeners, regs, last, calls, res, nops, heap, held, snaps, sim, js

vars == <<store, listeners, regs, last, calls, res, nops, heap, held, snaps, sim, js>>

(***************************************************************************)
(* Strings are sequences of one-character strings, so that split, filter    *)
(* and join are computed and not assumed.                                   *)
(***************************************************************************)
Slash == <<"/">>

RECURSIVE Split(_)
\* String.prototype.split("/"): the segments between the slashes, empty ones kept.
Split(s) ==
  IF s = <<>> THEN << <<>> >>
  ELSE LET r == Split(Tail(s))
       IN IF Head(s) = "/" THEN << <<>> >> \o r
          ELSE << <<Head(s)>> \o Head(r) >> \o Tail(r)

\* Mutant: the empty segments stay.
FilterNothing(parts) == parts

\* Array.prototype.filter(Boolean) on strings: the empty string is falsy.
FilterBoolean(parts) == SelectSeq(parts, LAMBDA p : p # <<>>)

RECURSIVE Join(_)
\* Array.prototype.join("/").
Join(parts) ==
  IF parts = <<>> THEN <<>>
  ELSE IF Len(parts) = 1 THEN parts[1]
  ELSE parts[1] \o Slash \o Join(Tail(parts))

\* parts.pop() ?? "" and the join of what is left.
splitDocPath(path) ==
  LET parts == FilterBoolean(Split(path))
  IN IF parts = <<>> THEN [collectionPath |-> <<>>, id |-> <<>>]
     ELSE [collectionPath |-> Join(SubSeq(parts, 1, Len(parts) - 1)),
           id |-> parts[Len(parts)]]

\* collection(db, path)
collection(path) == [type |-> "collection", path |-> path]

\* doc(collectionRef, id): the two-argument calling convention.
doc(collectionRef, id) == [type |-> "doc", path |-> collectionRef.path \o Slash \o id]

\* doc(db, ...path): the calling convention with path segments.
docDb(path) == [type |-> "doc", path |-> Join(path)]

(***************************************************************************)
(* Values: every JavaScript value carries its kind, as typeof / instanceof  *)
(* / Array.isArray see it.                                                   *)
(***************************************************************************)
Undefined == [t |-> "undefined"]
Num(n) == [t |-> "num", n |-> n]
Str(s) == [t |-> "str", s |-> s]
Obj(f) == [t |-> "obj", f |-> f]
Ts(s, ns) == [t |-> "ts", seconds |-> s, nanoseconds |-> ns]
Arr(a) == [t |-> "arr", a |-> a]

NoFields == [k \in {} |-> Undefined]

\* Mutant: an object without fields counts as false.
TruthyNonEmpty(v) ==
  /\ v.t # "undefined"
  /\ v.t # "null"
  /\ ~(v.t = "num" /\ v.n = 0)
  /\ ~(v.t = "str" /\ v.s = <<>>)
  /\ ~(v.t = "obj" /\ DOMAIN v.f = {})

\* Boolean(value)
Truthy(v) ==
  /\ v.t # "undefined"
  /\ v.t # "null"
  /\ ~(v.t = "num" /\ v.n = 0)
  /\ ~(v.t = "str" /\ v.s = <<>>)

RECURSIVE clone(_)
\* The deep copy: Timestamp field by field, array element-wise, plain object
\* key by key, anything else as it is.
clone(v) ==
  IF v.t = "ts" THEN Ts(v.seconds, v.nanoseconds)
  ELSE IF v.t = "arr" THEN Arr([i \in DOMAIN v.a |-> clone(v.a[i])])
  ELSE IF v.t = "obj" THEN Obj([k \in DOMAIN v.f |-> clone(v.f[k])])
  ELSE v

\* The own enumerable properties an object spread { ...v } copies.
Spread(v) ==
  IF v.t = "obj" THEN v.f
  ELSE IF v.t = "ts" THEN [k \in {"seconds", "nanoseconds"} |->
                             IF k = "seconds" THEN Num(v.seconds) ELSE Num(v.nanoseconds)]
  ELSE NoFields

\* Mutant: the keys of the stored document win.
SpreadMergeCurrentWins(current, next) == Obj(Spread(current) @@ Spread(next))

\* { ...current, ...next }: the keys of next win, one level deep.
SpreadMerge(current, next) == Obj(Spread(next) @@ Spread(current))

(***************************************************************************)
(* A collection is a JavaScript Map: entries in insertion order.            *)
(***************************************************************************)
MapIndex(coll, id) ==
  IF \E i \in 1..Len(coll) : coll[i].id = id
  THEN CHOOSE i \in 1..Len(coll) : coll[i].id = id
  ELSE 0

MapHas(coll, id) == MapIndex(coll, id) # 0

MapGet(coll, id) == IF MapHas(coll, id) THEN coll[MapIndex(coll, id)].data ELSE Undefined

\* Map.set: an existing key keeps its place, a new key goes last.
MapSet(coll, id, data) ==
  IF MapHas(coll, id)
  THEN [coll EXCEPT ![MapIndex(coll, id)] = [id |-> id, data |-> data]]
  ELSE Append(coll, [id |-> id, data |-> data])

MapDelete(coll, id) == SelectSeq(coll, LAMBDA e : e.id # id)

MapIds(coll) == {coll[i].id : i \in 1..Len(coll)}

\* store.has / store.set(path, new Map()) / store.get
ensureCollection(st, path) == IF path \in DOMAIN st THEN st ELSE (path :> <<>>) @@ st

StoreSet(st, path, coll) == (path :> coll) @@ st

(***************************************************************************)
(* Snapshots.  A document snapshot keeps the data it was built with;        *)
(* exists() and data() are computed from it on demand.                      *)
(***************************************************************************)
createDocSnapshot(collectionPath, id, data) ==
  [kind |-> "doc", id |-> id, data |-> data,
   ref |-> [type |-> "doc", path |-> collectionPath \o Slash \o id]]

SnapExists(snap) == Truthy(snap.data)

SnapData(snap) == IF Truthy(snap.data) THEN clone(snap.data) ELSE Undefined

\* Mutant: the documents without fields are left out.
createCollectionSnapshotOfFields(st, collectionPath) ==
  LET coll == SelectSeq(ensureCollection(st, collectionPath)[collectionPath],
                        LAMBDA d : d.data.t # "obj" \/ DOMAIN d.data.f # {})
      docs == [i \in 1..Len(coll) |-> createDocSnapshot(collectionPath, coll[i].id, coll[i].data)]
  IN [kind |-> "collection", docs |-> docs, size |-> Len(docs), empty |-> (Len(docs) = 0),
      ref |-> [type |-> "collection", path |-> collectionPath]]

\* Built on the store after ensureCollection(collectionPath).
createCollectionSnapshot(st, collectionPath) ==
  LET coll == ensureCollection(st, collectionPath)[collectionPath]
      docs == [i \in 1..Len(coll) |-> createDocSnapshot(collectionPath, coll[i].id, coll[i].data)]
  IN [kind |-> "collection", docs |-> docs, size |-> Len(docs), empty |-> (Len(docs) = 0),
      ref |-> [type |-> "collection", path |-> collectionPath]]

\* docChanges(): one "added" entry per element of docs.
docChanges(snap) == [i \in 1..Len(snap.docs) |-> [type |-> "added", doc |-> snap.docs[i]]]

(***************************************************************************)
(* Bounds and inputs.                                                       *)
(***************************************************************************)
\* Operations in one run.
MaxOps == 4
\* onSnapshot registrations in one run.
MaxRegs == 2

C == <<"c">>
X == <<"x">>
Y == <<"y">>
G == <<"g">>

\* Collection references the callers hold.
CollRefs == {collection(C)}
\* Document ids the callers address, and the ids generateId may return
\* (Math.random: nothing keeps a generated id from being one already in use).
Ids == {X, Y}
GenIds == {X, G}
DocRefs == {doc(cr, id) : cr \in CollRefs, id \in Ids}

\* Fields objects the callers write.
FieldsA1 == Obj("a" :> Num(1))
FieldsA0B2 == Obj(("a" :> Num(0)) @@ ("b" :> Num(2)))
FieldsIn == {FieldsA1, FieldsA0B2}

\* Records given to replaceCollection.
ItemX == Obj(("id" :> Str(X)) @@ ("a" :> Num(1)))
ItemX2 == Obj(("id" :> Str(X)) @@ ("b" :> Num(2)))
ItemNoId == Obj("a" :> Num(0))
ItemsIn == {<<>>, <<ItemX>>, <<ItemX, ItemNoId>>, <<ItemX, ItemX2>>}

\* Callbacks handed to onSnapshot.  A and B only keep what they are given.
\* R and W also write: given a document snapshot whose field a is 1, R sets a
\* to 2 on that document with setDoc(snapshot.ref, {a: 2}, {merge: true}); W
\* does the same for the first document of a collection snapshot.  K calls
\* every unsubscribe function onSnapshot has returned so far.
Callbacks == {"A", "B", "R"}
FieldsA2 == Obj("a" :> Num(2))

\* data().a === 1
HasA1(data) == data.t = "obj" /\ "a" \in DOMAIN data.f /\ data.f["a"] = Num(1)

Reacts(cb, snap) ==
  \/ cb = "R" /\ snap.kind = "doc" /\ HasA1(snap.data)
  \/ cb = "W" /\ snap.kind = "collection" /\ snap.size > 0 /\ HasA1(snap.docs[1].data)

\* The reference the reacting callback writes through.
ReactRef(snap) == IF snap.kind = "doc" THEN snap.ref ELSE snap.docs[1].ref

(***************************************************************************)
(* The operations, as functions of the machine m: the store, the listener   *)
(* registry, and what the callbacks have been given.  m.calls lists the     *)
(* callback invocations of the running top-level operation, each with the   *)
(* nesting depth of the operation that made it; m.nested counts the         *)
(* operations begun by callbacks and m.notified lists the paths notify was  *)
(* called with.  A call also keeps the number of the notification that made *)
(* it (0: onSnapshot itself) and the listeners of its path at that moment;  *)
(* m.regs lists the unsubscribe functions returned so far, each with        *)
(* whether it has been called.                                              *)
(***************************************************************************)
\* Mutant: the path's entry stays when its last listener is removed.
unsubscribeKeepEntry(m, path, cb) ==
  IF path \notin DOMAIN m.listeners THEN m
  ELSE [m EXCEPT !.listeners = (path :> SelectSeq(m.listeners[path], LAMBDA k : k # cb))
                                  @@ m.listeners,
                 !.last = [k \in DOMAIN m.last \ {<<path, cb>>} |-> m.last[k]]]

\* The function onSnapshot returned for (path, cb).
unsubscribeM(m, path, cb) ==
  IF path \notin DOMAIN m.listeners THEN m
  ELSE LET subs == SelectSeq(m.listeners[path], LAMBDA k : k # cb)
           kept == [k \in DOMAIN m.last \ {<<path, cb>>} |-> m.last[k]]
       IN IF Len(subs) = 0
          THEN [m EXCEPT !.listeners = [p \in DOMAIN m.listeners \ {path} |-> m.listeners[p]],
                         !.last = kept]
          ELSE [m EXCEPT !.listeners = (path :> subs) @@ m.listeners, !.last = kept]

RECURSIVE UnsubscribeAll(_, _)
\* Callback K: every unsubscribe function returned so far is called.
UnsubscribeAll(m, i) ==
  IF i > Len(m.regs) THEN m
  ELSE UnsubscribeAll([unsubscribeM(m, m.regs[i].path, m.regs[i].cb)
                         EXCEPT !.regs[i].called = TRUE], i + 1)

RECURSIVE setDocM(_, _, _, _), emitDoc(_, _, _), emitCollection(_, _),
          notify(_, _, _), ForEach(_, _, _, _, _), Invoke(_, _, _, _, _),
          ForEachNewestFirst(_, _, _, _, _)

\* callback(snapshot)
Invoke(m, cb, path, snap, k) ==
  LET m1 == [m EXCEPT !.last = (<<path, cb>> :> snap) @@ m.last,
                      !.calls = Append(m.calls,
                                 [cb |-> cb, path |-> path, snap |-> snap, depth |-> m.depth,
                                  n |-> k,
                                  subs |-> IF path \in DOMAIN m.listeners
                                           THEN m.listeners[path] ELSE <<>>])]
  IN IF Reacts(cb, snap)
     THEN LET m2 == setDocM([m1 EXCEPT !.depth = m.depth + 1, !.nested = m.nested + 1],
                            ReactRef(snap), FieldsA2, TRUE)
          IN [m2 EXCEPT !.depth = m.depth]
     ELSE IF cb = "K" THEN UnsubscribeAll(m1, 1)
     ELSE m1

\* Mutant of the traversal below: the newest registration is visited first.
\* subs.forEach((callback) => callback(snapshot)): Set.prototype.forEach
\* visits the entries in insertion order and passes over an entry deleted
\* before its turn.  done holds the callbacks visited so far (no callback of
\* the model adds to the set while it is iterated).
ForEachNewestFirst(m, done, path, snap, k) ==
  LET live == IF path \in DOMAIN m.listeners THEN m.listeners[path] ELSE <<>>
      rest == SelectSeq(live, LAMBDA cb : cb \notin done)
  IN IF rest = <<>> THEN m
     ELSE ForEachNewestFirst(Invoke(m, rest[Len(rest)], path, snap, k),
                             done \cup {rest[Len(rest)]}, path, snap, k)

ForEach(m, done, path, snap, k) ==
  LET live == IF path \in DOMAIN m.listeners THEN m.listeners[path] ELSE <<>>
      rest == SelectSeq(live, LAMBDA cb : cb \notin done)
  IN IF rest = <<>> THEN m
     ELSE ForEach(Invoke(m, rest[1], path, snap, k), done \cup {rest[1]}, path, snap, k)

notify(m, path, snap) ==
  LET m1 == [m EXCEPT !.notified = Append(m.notified, path)]
  IN IF path \notin DOMAIN m1.listeners THEN m1
     ELSE ForEach(m1, {}, path, snap, Len(m1.notified))

emitCollection(m, collectionPath) ==
  LET st == ensureCollection(m.store, collectionPath)
  IN notify([m EXCEPT !.store = st], collectionPath,
            createCollectionSnapshot(st, collectionPath))

\* Mutant: the collection's listeners are notified before the document's.
emitDocCollectionFirst(m, collectionPath, id) ==
  LET m0 == emitCollection(m, collectionPath)
      data == MapGet(m0.store[collectionPath], id)
  IN notify(m0, collectionPath \o Slash \o id, createDocSnapshot(collectionPath, id, data))

\* Mutant: only the collection's listeners are notified.
emitDocOnlyCollection(m, collectionPath, id) ==
  emitCollection([m EXCEPT !.store = ensureCollection(m.store, collectionPath)], collectionPath)

emitDoc(m, collectionPath, id) ==
  LET st == ensureCollection(m.store, collectionPath)
      data == MapGet(st[collectionPath], id)
      m1 == notify([m EXCEPT !.store = st], collectionPath \o Slash \o id,
                   createDocSnapshot(collectionPath, id, data))
  IN emitCollection(m1, collectionPath)

\* Mutant: a set into a collection the store does not have fails.
setDocNoLazyCollection(m, docRef, data, merge) ==
  LET sp == splitDocPath(docRef.path)
      st == ensureCollection(m.store, sp.collectionPath)
      coll == st[sp.collectionPath]
      next == IF merge /\ MapHas(coll, sp.id)
              THEN SpreadMerge(MapGet(coll, sp.id), clone(data))
              ELSE clone(data)
  IN IF sp.collectionPath \notin DOMAIN m.store THEN [m EXCEPT !.status = "not-found"]
     ELSE emitDoc([m EXCEPT !.store = StoreSet(st, sp.collectionPath, MapSet(coll, sp.id, next))],
                  sp.collectionPath, sp.id)

setDocM(m, docRef, data, merge) ==
  LET sp == splitDocPath(docRef.path)
      st == ensureCollection(m.store, sp.collectionPath)
      coll == st[sp.collectionPath]
      next == IF merge /\ MapHas(coll, sp.id)
              THEN SpreadMerge(MapGet(coll, sp.id), clone(data))
              ELSE clone(data)
  IN emitDoc([m EXCEPT !.store = StoreSet(st, sp.collectionPath, MapSet(coll, sp.id, next))],
             sp.collectionPath, sp.id)

\* Mutant: update creates the document when it is absent.
updateDocUpsert(m, docRef, data) == setDocM(m, docRef, data, TRUE)

\* Throws before any write when the id is absent (m.status = "not-found").
updateDocM(m, docRef, data) ==
  LET sp == splitDocPath(docRef.path)
      st == ensureCollection(m.store, sp.collectionPath)
      coll == st[sp.collectionPath]
  IN IF ~MapHas(coll, sp.id)
     THEN [m EXCEPT !.store = st, !.status = "not-found"]
     ELSE emitDoc([m EXCEPT !.store = StoreSet(st, sp.collectionPath,
                               MapSet(coll, sp.id, SpreadMerge(MapGet(coll, sp.id), clone(data))))],
                  sp.collectionPath, sp.id)

\* Mutant: the listeners are notified before the document is removed.
deleteDocEmitFirst(m, docRef) ==
  LET sp == splitDocPath(docRef.path)
      m1 == emitDoc(m, sp.collectionPath, sp.id)
  IN [m1 EXCEPT !.store = StoreSet(m1.store, sp.collectionPath,
                                   MapDelete(m1.store[sp.collectionPath], sp.id))]

\* Mutant: deleting an absent document is an error.
deleteDocStrict(m, docRef) ==
  LET sp == splitDocPath(docRef.path)
      st == ensureCollection(m.store, sp.collectionPath)
  IN IF ~MapHas(st[sp.collectionPath], sp.id)
     THEN [m EXCEPT !.store = st, !.status = "not-found"]
     ELSE emitDoc([m EXCEPT !.store = StoreSet(st, sp.collectionPath,
                                               MapDelete(st[sp.collectionPath], sp.id))],
                  sp.collectionPath, sp.id)

\* Mutant: a delete empties the collection of the document.
deleteDocClearCollection(m, docRef) ==
  LET sp == splitDocPath(docRef.path)
      st == ensureCollection(m.store, sp.collectionPath)
  IN emitDoc([m EXCEPT !.store = StoreSet(st, sp.collectionPath, <<>>)],
             sp.collectionPath, sp.id)

deleteDocM(m, docRef) ==
  LET sp == splitDocPath(docRef.path)
      st == ensureCollection(m.store, sp.collectionPath)
  IN emitDoc([m EXCEPT !.store = StoreSet(st, sp.collectionPath,
                                          MapDelete(st[sp.collectionPath], sp.id))],
             sp.collectionPath, sp.id)

\* Mutant: a generated id that is already in the collection is not written.
addDocKeepExisting(m, collectionRef, data, id) ==
  LET st == ensureCollection(m.store, collectionRef.path)
  IN emitDoc([m EXCEPT !.store =
                 IF MapHas(st[collectionRef.path], id) THEN st
                 ELSE StoreSet(st, collectionRef.path,
                               MapSet(st[collectionRef.path], id, clone(data)))],
             collectionRef.path, id)

\* id is what generateId() returned.
addDocM(m, collectionRef, data, id) ==
  LET st == ensureCollection(m.store, collectionRef.path)
  IN emitDoc([m EXCEPT !.store = StoreSet(st, collectionRef.path,
                                          MapSet(st[collectionRef.path], id, clone(data)))],
             collectionRef.path, id)

\* rawItem[idField] ?? generateId()
ItemId(item, idField, generated) ==
  IF idField \in DOMAIN item.f /\ item.f[idField].t \notin {"undefined", "null"}
  THEN item.f[idField].s
  ELSE generated

\* Mutant: the id field stays in the stored fields.
ItemDataKeepId(item, idField) == Obj(Spread(item))

\* { ...rawItem } with data[idField] deleted.
ItemData(item, idField) ==
  Obj([k \in DOMAIN Spread(item) \ {idField} |-> Spread(item)[k]])

RECURSIVE FillCollection(_, _, _, _, _)
\* items.forEach: gen[i] is what generateId() would return for item i.
FillCollection(coll, items, i, idField, gen) ==
  IF i > Len(items) THEN coll
  ELSE FillCollection(MapSet(coll, ItemId(items[i], idField, gen[i]),
                             clone(ItemData(items[i], idField))),
                      items, i + 1, idField, gen)

\* Mutant: the listeners are also notified once the old contents are gone.
replaceCollectionNotifyEmpty(m, collectionPath, items, optIdField, gen) ==
  LET idField == IF optIdField = "" THEN "id" ELSE optIdField
      m1 == emitCollection([m EXCEPT !.store = StoreSet(m.store, collectionPath, <<>>)],
                           collectionPath)
      coll == FillCollection(<<>>, items, 1, idField, gen)
  IN emitCollection([m1 EXCEPT !.store = StoreSet(m1.store, collectionPath, coll)],
                    collectionPath)

\* options.idField ?? "id"
replaceCollectionM(m, collectionPath, items, optIdField, gen) ==
  LET idField == IF optIdField = "" THEN "id" ELSE optIdField
      coll == FillCollection(<<>>, items, 1, idField, gen)
  IN emitCollection([m EXCEPT !.store = StoreSet(m.store, collectionPath, coll)],
                    collectionPath)

\* Set.add: a callback already in the set keeps its place.
SetAdd(subs, cb) == IF \E i \in 1..Len(subs) : subs[i] = cb THEN subs ELSE Append(subs, cb)

\* Mutant: the callback is registered but not invoked by onSnapshot.
onSnapshotNoInitial(m, ref, cb) ==
  LET subs == IF ref.path \in DOMAIN m.listeners THEN m.listeners[ref.path] ELSE <<>>
      st == ensureCollection(m.store, IF ref.type = "collection" THEN ref.path
                                      ELSE splitDocPath(ref.path).collectionPath)
  IN [m EXCEPT !.listeners = (ref.path :> SetAdd(subs, cb)) @@ m.listeners, !.store = st]

onSnapshotM(m, ref, cb) ==
  LET subs == IF ref.path \in DOMAIN m.listeners THEN m.listeners[ref.path] ELSE <<>>
      m1 == [m EXCEPT !.listeners = (ref.path :> SetAdd(subs, cb)) @@ m.listeners]
  IN IF ref.type = "collection"
     THEN LET st == ensureCollection(m1.store, ref.path)
          IN Invoke([m1 EXCEPT !.store = st], cb, ref.path,
                    createCollectionSnapshot(st, ref.path), 0)
     ELSE LET sp == splitDocPath(ref.path)
              st == ensureCollection(m1.store, sp.collectionPath)
          IN Invoke([m1 EXCEPT !.store = st], cb, ref.path,
                    createDocSnapshot(sp.collectionPath, sp.id,
                                      MapGet(st[sp.collectionPath], sp.id)), 0)

(***************************************************************************)
(* State.  store and listeners are the two module-level maps.  regs holds   *)
(* the unsubscribe functions onSnapshot has returned, last what each        *)
(* registered callback was last given through each path, calls the callback *)
(* invocations of the latest operation and res that operation, its          *)
(* arguments and its outcome (repeat: it has the kind and the reference of  *)
(* the operation before it).  heap, held and snaps are the objects of the   *)
(* runs that tell one object from its copy (see SpecClone); the other runs  *)
(* have none.                                                               *)
(***************************************************************************)
NoMap == [p \in {} |-> <<>>]

\* The provider of the frontend before its effect has run: seededRef.current,
\* whether its interval is set, and the promise reactions waiting to run.
NoSim == [seeded |-> FALSE, interval |-> FALSE, micro |-> <<>>]

\* The JavaScript copy of the store before any call: its store and listeners
\* maps, what its callbacks were last given, the callback invocations of its
\* latest operation and that operation's outcome.
NoJs == [store |-> NoMap, listeners |-> NoMap, last |-> NoMap, calls |-> <<>>,
         status |-> "ok", value |-> Undefined, notified |-> <<>>]

Machine ==
  [store |-> store, listeners |-> listeners, last |-> last, calls |-> <<>>,
   depth |-> 1, nested |-> 0, notified |-> <<>>, status |-> "ok", regs |-> regs]

Result(op, ref, data, merge, m, value) ==
  [op |-> op, ref |-> ref, data |-> data, merge |-> merge,
   status |-> m.status, value |-> value, nested |-> m.nested, notified |-> m.notified,
   repeat |-> (res.op = op /\ res.ref = ref)]

Commit(m, r) ==
  /\ store' = m.store
  /\ listeners' = m.listeners
  /\ last' = m.last
  /\ calls' = m.calls
  /\ res' = r
  /\ nops' = nops + 1
  /\ regs' = m.regs
  /\ UNCHANGED <<heap, held, snaps, sim, js>>

InitStore ==
  /\ store = NoMap
  /\ listeners = NoMap
  /\ regs = <<>>
  /\ last = NoMap
  /\ calls = <<>>
  /\ res = [op |-> "none", ref |-> Undefined, data |-> Undefined, merge |-> FALSE,
            status |-> "ok", value |-> Undefined, nested |-> 0, notified |-> <<>>,
            repeat |-> FALSE]
  /\ nops = 0

Init ==
  /\ InitStore
  /\ heap = <<>>
  /\ held = {}
  /\ snaps = <<>>
  /\ sim = NoSim
  /\ js = NoJs

\* Mutant: a read does not create the collection it finds missing.
GetDocsNoCreate(collectionRef) ==
  /\ nops < MaxOps
  /\ Commit(Machine, Result("getDocs", collectionRef, Undefined, FALSE, Machine,
                            createCollectionSnapshot(store, collectionRef.path)))

GetDocs(collectionRef) ==
  /\ nops < MaxOps
  /\ LET m == [Machine EXCEPT !.store = ensureCollection(store, collectionRef.path)]
     IN Commit(m, Result("getDocs", collectionRef, Undefined, FALSE, m,
                         createCollectionSnapshot(store, collectionRef.path)))

GetDoc(docRef) ==
  /\ nops < MaxOps
  /\ LET sp == splitDocPath(docRef.path)
         m == [Machine EXCEPT !.store = ensureCollection(store, sp.collectionPath)]
     IN Commit(m, Result("getDoc", docRef, Undefined, FALSE, m,
                         createDocSnapshot(sp.collectionPath, sp.id,
                                           MapGet(m.store[sp.collectionPath], sp.id))))

AddDoc(collectionRef, data, id) ==
  /\ nops < MaxOps
  /\ LET m == addDocM(Machine, collectionRef, data, id)
     IN Commit(m, Result("addDoc", collectionRef, data, FALSE, m,
                         [type |-> "doc", path |-> collectionRef.path \o Slash \o id]))

SetDoc(docRef, data, merge) ==
  /\ nops < MaxOps
  /\ LET m == setDocM(Machine, docRef, data, merge)
     IN Commit(m, Result("setDoc", docRef, data, merge, m, Undefined))

UpdateDoc(docRef, data) ==
  /\ nops < MaxOps
  /\ LET m == updateDocM(Machine, docRef, data)
     IN Commit(m, Result("updateDoc", docRef, data, FALSE, m, Undefined))

DeleteDoc(docRef) ==
  /\ nops < MaxOps
  /\ LET m == deleteDocM(Machine, docRef)
     IN Commit(m, Result("deleteDoc", docRef, Undefined, FALSE, m, Undefined))

OnSnapshot(ref, cb) ==
  /\ nops < MaxOps
  /\ Len(regs) < MaxRegs
  /\ LET m == onSnapshotM(Machine, ref, cb)
     IN Commit([m EXCEPT !.regs = Append(m.regs, [path |-> ref.path, cb |-> cb,
                                                  called |-> FALSE])],
               Result("onSnapshot", ref, Undefined, FALSE, m, Undefined))

\* Calling the i-th function onSnapshot returned (any number of times).
Unsubscribe(i) ==
  /\ nops < MaxOps
  /\ i \in 1..Len(regs)
  /\ LET m == [unsubscribeM(Machine, regs[i].path, regs[i].cb) EXCEPT !.regs[i].called = TRUE]
     IN Commit(m, Result("unsubscribe", [type |-> "reg", path |-> regs[i].path, reg |-> i],
                         Undefined, FALSE, m, Undefined))

ReplaceCollection(collectionPath, items, optIdField, gen) ==
  /\ nops < MaxOps
  /\ LET m == replaceCollectionM(Machine, collectionPath, items, optIdField, gen)
     IN Commit(m, Result("replaceCollection", collection(collectionPath), Arr(items),
                         FALSE, m, [idField |-> optIdField, gen |-> gen]))

Next ==
  \/ \E cr \in CollRefs : GetDocs(cr)
  \/ \E dr \in DocRefs : GetDoc(dr)
  \/ \E cr \in CollRefs, d \in FieldsIn, id \in GenIds : AddDoc(cr, d, id)
  \/ \E dr \in DocRefs, d \in FieldsIn, mg \in BOOLEAN : SetDoc(dr, d, mg)
  \/ \E dr \in DocRefs, d \in FieldsIn : UpdateDoc(dr, d)
  \/ \E dr \in DocRefs : DeleteDoc(dr)
  \/ \E r \in CollRefs \cup DocRefs, cb \in Callbacks : OnSnapshot(r, cb)
  \/ \E i \in 1..MaxRegs : Unsubscribe(i)
  \/ \E cr \in CollRefs, items \in ItemsIn, g \in GenIds :
        ReplaceCollection(cr.path, items, "", [i \in 1..Len(items) |-> g])

Spec == Init /\ [][Next]_vars

(***************************************************************************)
(* The same operations on richer fields and records, with no listener      *)
(* registered: what the writes store.                                       *)
(***************************************************************************)
D == <<"d">>
FieldsNest1 == Obj("a" :> Obj("n" :> Num(1)))
FieldsNest2 == Obj(("a" :> Obj(("n" :> Num(0)) @@ ("m" :> Num(1)))) @@ ("b" :> Num(2)))
FieldsData == {FieldsA1, FieldsA0B2, FieldsNest1, FieldsNest2}

ItemK == Obj(("k" :> Str(Y)) @@ ("id" :> Str(X)) @@ ("a" :> Num(1)))
ItemsData == {<<>>, <<ItemX>>, <<ItemX, ItemNoId>>, <<ItemX, ItemX2>>, <<ItemK, ItemNoId>>,
              <<ItemNoId, ItemNoId>>}
\* options.idField: "" stands for an options object without idField.
IdFieldOpts == {"", "k"}
\* What generateId returns for the first and for the second record.
GenSeqs == {<<X, G>>, <<G, G>>, <<G, X>>}
\* Operations in one run of these.
MaxDataOps == 3

NextData ==
  \/ \E cr \in {collection(C), collection(D)} : nops < MaxDataOps /\ GetDocs(cr)
  \/ \E dr \in DocRefs : nops < MaxDataOps /\ GetDoc(dr)
  \/ \E cr \in CollRefs, d \in FieldsData, id \in GenIds : nops < MaxDataOps /\ AddDoc(cr, d, id)
  \/ \E dr \in DocRefs, d \in FieldsData, mg \in BOOLEAN : nops < MaxDataOps /\ SetDoc(dr, d, mg)
  \/ \E dr \in DocRefs, d \in FieldsData : nops < MaxDataOps /\ UpdateDoc(dr, d)
  \/ \E dr \in DocRefs : nops < MaxDataOps /\ DeleteDoc(dr)
  \/ \E cr \in CollRefs, items \in ItemsData, f \in IdFieldOpts, gen \in GenSeqs :
        nops < MaxDataOps /\ ReplaceCollection(cr.path, items, f, gen)

SpecData == Init /\ [][NextData]_vars

(***************************************************************************)
(* The same operations through references built from any strings: a        *)
(* collection path with a leading slash, an empty id, a segment with a      *)
(* trailing slash given to doc(db, ...path).                                *)
(***************************************************************************)
PathCollRefs == {collection(C), collection(Slash \o C)}
PathIds == {X, <<>>}
PathDocRefs == {doc(cr, id) : cr \in PathCollRefs, id \in PathIds} \cup {docDb(<<C \o Slash, X>>)}
\* Operations in one run of these.
MaxPathOps == 3

NextPaths ==
  \/ \E cr \in PathCollRefs : nops < MaxPathOps /\ GetDocs(cr)
  \/ \E dr \in PathDocRefs : nops < MaxPathOps /\ GetDoc(dr)
  \/ \E cr \in PathCollRefs, id \in GenIds : nops < MaxPathOps /\ AddDoc(cr, FieldsA1, id)
  \/ \E dr \in PathDocRefs, mg \in BOOLEAN : nops < MaxPathOps /\ SetDoc(dr, FieldsA1, mg)
  \/ \E dr \in PathDocRefs : nops < MaxPathOps /\ UpdateDoc(dr, FieldsA0B2)
  \/ \E dr \in PathDocRefs : nops < MaxPathOps /\ DeleteDoc(dr)
  \/ \E r \in PathCollRefs \cup PathDocRefs : nops < MaxPathOps /\ OnSnapshot(r, "A")

SpecPaths == Init /\ [][NextPaths]_vars

(***************************************************************************)
(* The operations with listeners that change the store or the registry     *)
(* while they are notified.                                                 *)
(***************************************************************************)
NotifyCallbacks == {"A", "K", "W"}
NotifyRefs == {collection(C), doc(collection(C), X)}
NotifyItems == {<<ItemX>>, <<ItemX, ItemNoId>>}
\* Operations in one run of these.
MaxNotifyOps == 4

NextNotify ==
  \/ \E r \in NotifyRefs, cb \in NotifyCallbacks : nops < MaxNotifyOps /\ OnSnapshot(r, cb)
  \/ \E i \in 1..MaxRegs : nops < MaxNotifyOps /\ Unsubscribe(i)
  \/ \E id \in GenIds : nops < MaxNotifyOps /\ AddDoc(collection(C), FieldsA1, id)
  \/ \E mg \in BOOLEAN : nops < MaxNotifyOps /\ SetDoc(doc(collection(C), X), FieldsA1, mg)
  \/ nops < MaxNotifyOps /\ UpdateDoc(doc(collection(C), X), FieldsA0B2)
  \/ nops < MaxNotifyOps /\ DeleteDoc(doc(collection(C), X))
  \/ \E items \in NotifyItems :
        nops < MaxNotifyOps /\ ReplaceCollection(C, items, "", [i \in 1..Len(items) |-> G])

SpecNotify == Init /\ [][NextNotify]_vars

(***************************************************************************)
(* The specification of the snapshots: documents with and without fields    *)
(* are written, read and deleted, and one passive callback listens.         *)
(***************************************************************************)
FieldsNone == Obj(NoFields)
SnapFields == {FieldsA1, FieldsNone}
ItemIdOnly == Obj("id" :> Str(X))
SnapItems == {<<>>, <<ItemIdOnly>>}

\* Operations in one run of these.
MaxSnapOps == 3

NextSnap ==
  \/ \E cr \in CollRefs : nops < MaxSnapOps /\ GetDocs(cr)
  \/ \E dr \in DocRefs : nops < MaxSnapOps /\ GetDoc(dr)
  \/ \E cr \in CollRefs, d \in SnapFields, id \in GenIds : nops < MaxSnapOps /\ AddDoc(cr, d, id)
  \/ \E dr \in DocRefs, d \in SnapFields, mg \in BOOLEAN : nops < MaxSnapOps /\ SetDoc(dr, d, mg)
  \/ \E dr \in DocRefs, d \in SnapFields : nops < MaxSnapOps /\ UpdateDoc(dr, d)
  \/ \E dr \in DocRefs : nops < MaxSnapOps /\ DeleteDoc(dr)
  \/ \E r \in CollRefs \cup DocRefs : nops < MaxSnapOps /\ OnSnapshot(r, "A")
  \/ \E items \in SnapItems :
        nops < MaxSnapOps /\ ReplaceCollection(C, items, "", [i \in 1..Len(items) |-> G])

SpecSnap == Init /\ [][NextSnap]_vars

(***************************************************************************)
(* Object identity.  The heap holds the objects of the callers and of the   *)
(* store, each at an address; a field, an element or a map entry that is an *)
(* object holds Ref(address).  In these runs the store maps an id to the    *)
(* address of its fields object, held is the set of addresses the callers   *)
(* hold (the fields object they built, the objects data() returned to them) *)
(* and snaps the document snapshots they hold.  No listener is registered,  *)
(* so notify finds no subscriber.  An address only names an object: the     *)
(* order in which an operation allocates has no meaning.                    *)
(***************************************************************************)
Ref(a) == [t |-> "ref", addr |-> a]

\* new Timestamp(..), {}, [], { ...o }: a fresh object at the next address.
Alloc(h, o) == [heap |-> Append(h, o), val |-> Ref(Len(h) + 1)]

\* The keys of an object, in one order for Object.entries.
KeyOrder == <<"id", "a", "n", "l", "k", "z">>
Keys(f) == SelectSeq(KeyOrder, LAMBDA k : k \in DOMAIN f)
KeyPos(ks, k) == CHOOSE i \in 1..Len(ks) : ks[i] = k

RECURSIVE cloneH(_, _), cloneEach(_, _, _, _)

\* Mutant: a copy one level deep.
cloneHShallow(h, v) ==
  IF v.t # "ref" THEN [heap |-> h, val |-> v] ELSE Alloc(h, h[v.addr])

\* clone(value) on the heap: the copy and the heap that holds it.
cloneH(h, v) ==
  IF v.t # "ref" THEN [heap |-> h, val |-> v]
  ELSE LET o == h[v.addr]
       IN IF o.t = "ts" THEN Alloc(h, Ts(o.seconds, o.nanoseconds))
          ELSE IF o.t = "arr"
          THEN LET r == cloneEach(h, o.a, 1, <<>>) IN Alloc(r.heap, Arr(r.val))
          ELSE LET ks == Keys(o.f)
                   r == cloneEach(h, [i \in 1..Len(ks) |-> o.f[ks[i]]], 1, <<>>)
               IN Alloc(r.heap, Obj([k \in DOMAIN o.f |-> r.val[KeyPos(ks, k)]]))

\* value.map(clone), Object.entries(value).forEach
cloneEach(h, slots, i, acc) ==
  IF i > Len(slots) THEN [heap |-> h, val |-> acc]
  ELSE LET r == cloneH(h, slots[i])
       IN cloneEach(r.heap, slots, i + 1, Append(acc, r.val))

\* Mutant: Object.assign(current, next), the stored object changed in place.
SpreadMergeInPlace(h, current, next) ==
  [heap |-> [h EXCEPT ![current.addr] = Obj(h[next.addr].f @@ h[current.addr].f)],
   val |-> current]

\* { ...current, ...next }: a new object with the entries of both, those of
\* next first in line.
SpreadMergeH(h, current, next) == Alloc(h, Obj(h[next.addr].f @@ h[current.addr].f))

setDocH(hm, docRef, data, merge) ==
  LET sp == splitDocPath(docRef.path)
      st == ensureCollection(hm.store, sp.collectionPath)
      coll == st[sp.collectionPath]
      c == cloneH(hm.heap, data)
      next == IF merge /\ MapHas(coll, sp.id)
              THEN SpreadMergeH(c.heap, MapGet(coll, sp.id), c.val)
              ELSE c
  IN [hm EXCEPT !.heap = next.heap,
                !.store = StoreSet(st, sp.collectionPath, MapSet(coll, sp.id, next.val))]

updateDocH(hm, docRef, data) ==
  LET sp == splitDocPath(docRef.path)
      st == ensureCollection(hm.store, sp.collectionPath)
      coll == st[sp.collectionPath]
      c == cloneH(hm.heap, data)
      next == SpreadMergeH(c.heap, MapGet(coll, sp.id), c.val)
  IN IF ~MapHas(coll, sp.id)
     THEN [hm EXCEPT !.store = st, !.status = "not-found"]
     ELSE [hm EXCEPT !.heap = next.heap,
                     !.store = StoreSet(st, sp.collectionPath, MapSet(coll, sp.id, next.val))]

addDocH(hm, collectionRef, data, id) ==
  LET st == ensureCollection(hm.store, collectionRef.path)
      c == cloneH(hm.heap, data)
  IN [hm EXCEPT !.heap = c.heap,
                !.store = StoreSet(st, collectionRef.path,
                                   MapSet(st[collectionRef.path], id, c.val))]

RECURSIVE FillCollectionH(_, _, _, _, _, _)
\* items.forEach: data = { ...rawItem } without the id field, stored as clone(data).
FillCollectionH(h, coll, items, i, idField, gen) ==
  IF i > Len(items) THEN [heap |-> h, val |-> coll]
  ELSE LET rawItem == h[items[i].addr]
           id == IF idField \in DOMAIN rawItem.f /\ rawItem.f[idField].t \notin {"undefined", "null"}
                 THEN rawItem.f[idField].s
                 ELSE gen[i]
           data == Alloc(h, Obj([k \in DOMAIN rawItem.f \ {idField} |-> rawItem.f[k]]))
           c == cloneH(data.heap, data.val)
       IN FillCollectionH(c.heap, MapSet(coll, id, c.val), items, i + 1, idField, gen)

replaceCollectionH(hm, collectionPath, items, optIdField, gen) ==
  LET idField == IF optIdField = "" THEN "id" ELSE optIdField
      r == FillCollectionH(hm.heap, <<>>, items, 1, idField, gen)
  IN [hm EXCEPT !.heap = r.heap, !.store = StoreSet(hm.store, collectionPath, r.val)]

\* The fields object the caller has built:
\* f = {id: "x", n: {k: 1}, l: [new Timestamp(1, 5)]}.
HeapF ==
  << Obj("k" :> Num(1)),
     Ts(1, 5),
     Arr(<<Ref(2)>>),
     Obj(("id" :> Str(X)) @@ ("n" :> Ref(1)) @@ ("l" :> Ref(3))) >>
RootF == Len(HeapF)

\* What a caller assigns when it mutates an object it holds.
Poison == Num(9)

\* o.z = 9, a.push(9), t.seconds = 9
Mutated(o) ==
  IF o.t = "ts" THEN [o EXCEPT !.seconds = Poison.n]
  ELSE IF o.t = "arr" THEN Arr(Append(o.a, Poison))
  ELSE Obj(("z" :> Poison) @@ o.f)

\* The objects an object holds directly.
Held(o) ==
  IF o.t = "arr" THEN {o.a[i].addr : i \in {j \in DOMAIN o.a : o.a[j].t = "ref"}}
  ELSE IF o.t = "obj" THEN {o.f[k].addr : k \in {j \in DOMAIN o.f : o.f[j].t = "ref"}}
  ELSE {}

RECURSIVE Reachable(_, _)
\* The addresses reachable from a set of addresses.
Reachable(h, as) ==
  LET more == as \cup UNION {Held(h[a]) : a \in as}
  IN IF more = as THEN as ELSE Reachable(h, more)

RECURSIVE Deref(_, _)
\* The value at an address: the object with everything it reaches.
Deref(h, v) ==
  IF v.t # "ref" THEN v
  ELSE LET o == h[v.addr]
       IN IF o.t = "ts" THEN o
          ELSE IF o.t = "arr" THEN Arr([i \in DOMAIN o.a |-> Deref(h, o.a[i])])
          ELSE Obj([k \in DOMAIN o.f |-> Deref(h, o.f[k])])

HeapMachine == [heap |-> heap, store |-> store, status |-> "ok"]

ResultH(op, ref, data, merge, hm, value) ==
  [op |-> op, ref |-> ref, data |-> data, merge |-> merge, status |-> hm.status,
   value |-> value]

CommitH(hm, r) ==
  /\ heap' = hm.heap
  /\ store' = hm.store
  /\ res' = r
  /\ nops' = nops + 1
  /\ UNCHANGED <<listeners, regs, last, calls, sim, js>>

InitClone ==
  /\ InitStore
  /\ heap = HeapF
  /\ held = {RootF}
  /\ snaps = <<>>
  /\ sim = NoSim
  /\ js = NoJs

\* Operations in one run of these.
MaxCloneOps == 5

SetDocH(docRef, a, merge) ==
  /\ nops < MaxCloneOps
  /\ a \in held
  /\ LET hm == setDocH(HeapMachine, docRef, Ref(a), merge)
     IN CommitH(hm, ResultH("setDoc", docRef, Ref(a), merge, hm, Undefined))
  /\ UNCHANGED <<held, snaps>>

UpdateDocH(docRef, a) ==
  /\ nops < MaxCloneOps
  /\ a \in held
  /\ LET hm == updateDocH(HeapMachine, docRef, Ref(a))
     IN CommitH(hm, ResultH("updateDoc", docRef, Ref(a), FALSE, hm, Undefined))
  /\ UNCHANGED <<held, snaps>>

AddDocH(collectionRef, a, id) ==
  /\ nops < MaxCloneOps
  /\ a \in held
  /\ LET hm == addDocH(HeapMachine, collectionRef, Ref(a), id)
     IN CommitH(hm, ResultH("addDoc", collectionRef, Ref(a), FALSE, hm,
                            [type |-> "doc", path |-> collectionRef.path \o Slash \o id]))
  /\ UNCHANGED <<held, snaps>>

ReplaceCollectionH(collectionPath, a, optIdField, id) ==
  /\ nops < MaxCloneOps
  /\ a \in held
  /\ LET hm == replaceCollectionH(HeapMachine, collectionPath, <<Ref(a)>>, optIdField, <<id>>)
     IN CommitH(hm, ResultH("replaceCollection", collection(collectionPath), Ref(a), FALSE, hm,
                            [idField |-> optIdField, gen |-> <<id>>]))
  /\ UNCHANGED <<held, snaps>>

\* The caller keeps the snapshot getDoc resolves to.
GetDocH(docRef) ==
  /\ nops < MaxCloneOps
  /\ LET sp == splitDocPath(docRef.path)
         hm == [HeapMachine EXCEPT !.store = ensureCollection(store, sp.collectionPath)]
         snap == createDocSnapshot(sp.collectionPath, sp.id,
                                   MapGet(hm.store[sp.collectionPath], sp.id))
     IN /\ CommitH(hm, ResultH("getDoc", docRef, Undefined, FALSE, hm, snap))
        /\ snaps' = Append(snaps, snap)
  /\ UNCHANGED held

\* snapshot.data() on a snapshot the caller keeps; the caller holds the result.
DataH(i) ==
  /\ nops < MaxCloneOps
  /\ i \in 1..Len(snaps)
  /\ LET c == IF Truthy(snaps[i].data) THEN cloneH(heap, snaps[i].data)
              ELSE [heap |-> heap, val |-> Undefined]
         hm == [HeapMachine EXCEPT !.heap = c.heap]
     IN /\ CommitH(hm, ResultH("data", snaps[i].ref, Undefined, FALSE, hm, c.val))
        /\ held' = IF c.val.t = "ref" THEN held \cup {c.val.addr} ELSE held
  /\ UNCHANGED snaps

\* The caller mutates an object it can reach.
Mutate(a) ==
  /\ nops < MaxCloneOps
  /\ a \in Reachable(heap, held)
  /\ LET hm == [HeapMachine EXCEPT !.heap = [heap EXCEPT ![a] = Mutated(heap[a])]]
     IN CommitH(hm, ResultH("mutate", Ref(a), Undefined, FALSE, hm, Undefined))
  /\ UNCHANGED <<held, snaps>>

NextClone ==
  \/ \E a \in 1..Len(heap), mg \in BOOLEAN : SetDocH(doc(collection(C), X), a, mg)
  \/ \E a \in 1..Len(heap) : UpdateDocH(doc(collection(C), X), a)
  \/ \E a \in 1..Len(heap) : AddDocH(collection(C), a, G)
  \/ \E a \in 1..Len(heap), f \in IdFieldOpts : ReplaceCollectionH(C, a, f, G)
  \/ GetDocH(doc(collection(C), X))
  \/ \E i \in 1..Len(snaps) : DataH(i)
  \/ \E a \in 1..Len(heap) : Mutate(a)

SpecClone == InitClone /\ [][NextClone]_vars

(***************************************************************************)
(* The specification of the snapshots a caller keeps: the caller writes one *)
(* of two fields objects, deletes, replaces, and keeps the document and     *)
(* collection snapshots its reads resolve to.                               *)
(***************************************************************************)
deleteDocH(hm, docRef) ==
  LET sp == splitDocPath(docRef.path)
      st == ensureCollection(hm.store, sp.collectionPath)
  IN [hm EXCEPT !.store = StoreSet(st, sp.collectionPath,
                                   MapDelete(st[sp.collectionPath], sp.id))]

\* The second fields object of the caller: g = {a: 1}.
HeapG == Obj("a" :> Num(1))
RootG == RootF + 1

InitPoint ==
  /\ InitStore
  /\ heap = Append(HeapF, HeapG)
  /\ held = {RootF, RootG}
  /\ snaps = <<>>
  /\ sim = NoSim
  /\ js = NoJs

\* Operations in one run of these.
MaxPointOps == 4

DeleteDocH(docRef) ==
  /\ nops < MaxCloneOps
  /\ LET hm == deleteDocH(HeapMachine, docRef)
     IN CommitH(hm, ResultH("deleteDoc", docRef, Undefined, FALSE, hm, Undefined))
  /\ UNCHANGED <<held, snaps>>

\* The caller keeps the snapshot getDocs resolves to.
GetDocsH(collectionRef) ==
  /\ nops < MaxCloneOps
  /\ LET hm == [HeapMachine EXCEPT !.store = ensureCollection(store, collectionRef.path)]
         snap == createCollectionSnapshot(hm.store, collectionRef.path)
     IN /\ CommitH(hm, ResultH("getDocs", collectionRef, Undefined, FALSE, hm, snap))
        /\ snaps' = Append(snaps, snap)
  /\ UNCHANGED held

NextPoint ==
  \/ \E a \in held, mg \in BOOLEAN : nops < MaxPointOps /\ SetDocH(doc(collection(C), X), a, mg)
  \/ \E a \in held : nops < MaxPointOps /\ UpdateDocH(doc(collection(C), X), a)
  \/ \E a \in held, id \in GenIds : nops < MaxPointOps /\ AddDocH(collection(C), a, id)
  \/ \E a \in held : nops < MaxPointOps /\ ReplaceCollectionH(C, a, "", G)
  \/ nops < MaxPointOps /\ DeleteDocH(doc(collection(C), X))
  \/ nops < MaxPointOps /\ GetDocH(doc(collection(C), X))
  \/ nops < MaxPointOps /\ GetDocsH(collection(C))

SpecPoint == InitPoint /\ [][NextPoint]_vars

(***************************************************************************)
(* Addressing.  doc(...args) takes any arguments: a collection reference, a *)
(* database reference, another object, a string or undefined.  The          *)
(* specification of the addressing functions starts from any argument list  *)
(* or any pair of strings, with a document stored and a listener            *)
(* registered, and applies doc and splitDocPath to them.                    *)
(***************************************************************************)
ArgColl(cr) == [arg |-> "collection", ref |-> cr]
ArgDb == [arg |-> "db"]
ArgDoc(dr) == [arg |-> "doc", ref |-> dr]
ArgVal(v) == [arg |-> "value", v |-> v]

isCollectionRef(a) == a.arg = "collection"
isDbRef(a) == a.arg = "db"

\* String(value), and the element conversion of Array.prototype.join, which
\* gives "" for undefined and null.
StringOf(a) ==
  IF a.arg # "value" THEN <<"[", "o", "b", "j", "e", "c", "t", " ", "O", "b", "j", "e", "c", "t", "]">>
  ELSE IF a.v.t = "str" THEN a.v.s
  ELSE <<"u", "n", "d", "e", "f", "i", "n", "e", "d">>

JoinString(a) == IF a.arg = "value" /\ a.v.t = "undefined" THEN <<>> ELSE StringOf(a)

InvalidDocArguments == [status |-> "error", message |-> "Invalid doc() arguments"]

\* Mutant: a collection reference may be followed by several segments.
docArgsAnyLength(args) ==
  IF Len(args) >= 2 /\ isCollectionRef(args[1])
  THEN [status |-> "ok",
        value |-> doc(args[1].ref, Join([i \in 1..(Len(args) - 1) |-> JoinString(args[i + 1])]))]
  ELSE IF Len(args) >= 2 /\ isDbRef(args[1])
  THEN [status |-> "ok", value |-> docDb([i \in 1..(Len(args) - 1) |-> JoinString(args[i + 1])])]
  ELSE InvalidDocArguments

\* doc(...args)
docArgs(args) ==
  IF Len(args) = 2 /\ isCollectionRef(args[1])
  THEN [status |-> "ok", value |-> doc(args[1].ref, StringOf(args[2]))]
  ELSE IF Len(args) >= 2 /\ isDbRef(args[1])
  THEN [status |-> "ok", value |-> docDb([i \in 1..(Len(args) - 1) |-> JoinString(args[i + 1])])]
  ELSE InvalidDocArguments

\* The longest collection path, the longest id and the most arguments.
MaxPathLen == 4
MaxIdLen == 2
MaxArgs == 3

Alphabet == {"/", "c", "x"}
Strings(n) == UNION {[1..k -> Alphabet] : k \in 0..n}
ArgsIn == {ArgColl(collection(C)), ArgDb, ArgDoc(doc(collection(C), X)),
           ArgVal(Str(X)), ArgVal(Str(C \o Slash)), ArgVal(Undefined)}
ArgLists == UNION {[1..k -> ArgsIn] : k \in 0..MaxArgs}

AddrStore == C :> <<[id |-> X, data |-> FieldsA1]>>
AddrListeners == C :> <<"A">>

InitAddr ==
  /\ store = AddrStore
  /\ listeners = AddrListeners
  /\ regs = <<[path |-> C, cb |-> "A", called |-> FALSE]>>
  /\ last = NoMap
  /\ calls = <<>>
  /\ nops = 0
  /\ heap = <<>>
  /\ held = {}
  /\ snaps = <<>>
  /\ sim = NoSim
  /\ js = NoJs
  /\ \/ \E args \in ArgLists : res = [op |-> "args", args |-> args]
     \/ \E p \in Strings(MaxPathLen), id \in Strings(MaxIdLen) :
           res = [op |-> "strings", path |-> p, id |-> id]

\* doc(...args)
Doc ==
  /\ res.op = "args"
  /\ res' = [op |-> "doc", args |-> res.args, out |-> docArgs(res.args)]
  /\ nops' = nops + 1
  /\ UNCHANGED <<store, listeners, regs, last, calls, heap, held, snaps, sim, js>>

\* splitDocPath(path)
SplitDocPath ==
  /\ res.op = "strings"
  /\ res' = [op |-> "splitDocPath", path |-> res.path, out |-> splitDocPath(res.path)]
  /\ nops' = nops + 1
  /\ UNCHANGED <<store, listeners, regs, last, calls, heap, held, snaps, sim, js>>

\* splitDocPath of the path of doc(collection(db, path), id), of that path
\* after a "/" and of that path before a "/".
DocSplit(lead, trail) ==
  /\ res.op = "strings"
  /\ LET out == docArgs(<<ArgColl(collection(res.path)), ArgVal(Str(res.id))>>)
         given == (IF lead THEN Slash ELSE <<>>) \o out.value.path
                    \o (IF trail THEN Slash ELSE <<>>)
     IN res' = [op |-> "docSplit", path |-> res.path, id |-> res.id, ref |-> out.value,
                given |-> given, out |-> splitDocPath(given)]
  /\ nops' = nops + 1
  /\ UNCHANGED <<store, listeners, regs, last, calls, heap, held, snaps, sim, js>>

NextAddr ==
  \/ Doc
  \/ SplitDocPath
  \/ \E lead, trail \in BOOLEAN : DocSplit(lead, trail)

SpecAddr == InitAddr /\ [][NextAddr]_vars

(***************************************************************************)
(* Reading a state.                                                         *)
(***************************************************************************)
\* The listeners registered on a path, in registration order.
SubsOf(ls, path) == IF path \in DOMAIN ls THEN ls[path] ELSE <<>>

\* The documents of a collection; a collection the store lacks holds none.
CollOf(st, path) == IF path \in DOMAIN st THEN st[path] ELSE <<>>

\* The document an operation on a document reference addresses.
Target(r) == splitDocPath(r.ref.path)

TargetPath(r) == Target(r).collectionPath \o Slash \o Target(r).id

\* The snapshot of a path's current state, of the kind of the given one.
Fresh(st, snap) ==
  IF snap.kind = "collection"
  THEN createCollectionSnapshot(st, snap.ref.path)
  ELSE LET sp == splitDocPath(snap.ref.path)
       IN createDocSnapshot(sp.collectionPath, sp.id,
                            MapGet(CollOf(st, sp.collectionPath), sp.id))

\* Position of the first invocation of cb through path in a list of calls (0: none).
FirstCall(cs, cb, path) ==
  IF \E i \in 1..Len(cs) : cs[i].cb = cb /\ cs[i].path = path
  THEN CHOOSE i \in 1..Len(cs) : /\ cs[i].cb = cb /\ cs[i].path = path
                                 /\ \A j \in 1..(i - 1) : ~(cs[j].cb = cb /\ cs[j].path = path)
  ELSE 0

CountCalls(cs, cb, path) == Cardinality({i \in 1..Len(cs) : cs[i].cb = cb /\ cs[i].path = path})

\* Membership and position in a sequence without repetition.
InSeq(sq, x) == \E i \in 1..Len(sq) : sq[i] = x

PosIn(sq, x) == CHOOSE i \in 1..Len(sq) : sq[i] = x

\* The calls the operation made itself, not those of operations its callbacks began.
OwnCalls(cs) == SelectSeq(cs, LAMBDA c : c.depth = 1)

\* The (id, fields) pairs a collection snapshot shows.
SnapDocs(snap) ==
  {[id |-> snap.docs[i].id, data |-> SnapData(snap.docs[i])] : i \in 1..Len(snap.docs)}

\* key by key: the keys of next with next's values, the other keys of old.
Overlay(old, next) ==
  [k \in DOMAIN old \cup DOMAIN next |-> IF k \in DOMAIN next THEN next[k] ELSE old[k]]

(***************************************************************************)
(* C1.  Notification fan-out of a successful update.                        *)
(***************************************************************************)
\* A on the collection c and, registered after it, B on the document c/x.
FanOutSetting ==
  /\ regs = <<[path |-> C, cb |-> "A", called |-> FALSE],
               [path |-> C \o Slash \o X, cb |-> "B", called |-> FALSE]>>
  /\ SubsOf(listeners, C) = <<"A">>
  /\ SubsOf(listeners, C \o Slash \o X) = <<"B">>
  /\ res.op = "updateDoc"
  /\ res.status = "ok"
  /\ res.ref = doc(collection(C), X)

\* C1 as stated: in that setting the update invokes A once and B once, A before
\* B (their registration order), both with the post-update state.
C1_Original ==
  FanOutSetting =>
    /\ Len(calls) = 2
    /\ calls[1].cb = "A" /\ calls[1].snap = Fresh(store, calls[1].snap)
    /\ calls[2].cb = "B" /\ calls[2].snap = Fresh(store, calls[2].snap)

\* C1 amended: a successful update of a document invokes, in this order, every
\* listener of the document's path once with a document snapshot holding the
\* partial fields, and then every listener of the collection's path once with
\* a snapshot of the collection; B is invoked before A whatever the
\* registration order.  When no callback writes while it is notified, both
\* snapshots are those of the store after the update.
C1_UpdateFanOut ==
  (res.op = "updateDoc" /\ res.status = "ok") =>
    LET sp == Target(res)
        docSubs == SubsOf(listeners, TargetPath(res))
        collSubs == SubsOf(listeners, sp.collectionPath)
        top == SelectSeq(calls, LAMBDA c : c.depth = 1)
    IN /\ Len(top) = Len(docSubs) + Len(collSubs)
       /\ \A i \in 1..Len(docSubs) :
             /\ top[i].cb = docSubs[i]
             /\ top[i].path = TargetPath(res)
             /\ top[i].snap.kind = "doc"
             /\ top[i].snap.id = sp.id
             /\ SnapExists(top[i].snap)
             /\ \A k \in DOMAIN res.data.f : SnapData(top[i].snap).f[k] = res.data.f[k]
             /\ res.nested = 0 => top[i].snap = Fresh(store, top[i].snap)
       /\ \A i \in 1..Len(collSubs) :
             /\ top[Len(docSubs) + i].cb = collSubs[i]
             /\ top[Len(docSubs) + i].path = sp.collectionPath
             /\ top[Len(docSubs) + i].snap.kind = "collection"
             /\ res.nested = 0 =>
                  top[Len(docSubs) + i].snap = createCollectionSnapshot(store, sp.collectionPath)

\* The update has run in the setting of C1: B was invoked first, then A.
C1_Witness ==
  /\ FanOutSetting
  /\ Len(calls) = 2
  /\ calls[1].cb = "B"
  /\ calls[2].cb = "A"
  /\ calls[1].snap.data = MapGet(store[C], X)

(***************************************************************************)
(* C2.  The precondition of update.                                         *)
(***************************************************************************)
\* C2: update on an id absent from its collection fails with not-found, leaves
\* every document of every collection as it was and invokes no listener; set
\* and create never fail with not-found.
C2_UpdatePrecondition ==
  [][/\ (res'.op = "updateDoc" /\ ~MapHas(CollOf(store, Target(res').collectionPath), Target(res').id)) =>
          /\ res'.status = "not-found"
          /\ \A p \in DOMAIN store' : store'[p] = CollOf(store, p)
          /\ DOMAIN store \subseteq DOMAIN store'
          /\ calls' = <<>>
          /\ res'.notified = <<>>
          /\ listeners' = listeners
     /\ (res'.op = "updateDoc" /\ MapHas(CollOf(store, Target(res').collectionPath), Target(res').id)) =>
          res'.status = "ok"
     /\ res'.op \in {"setDoc", "addDoc"} => res'.status = "ok"
    ]_vars

\* A rejected update of a document that has a listener on its path and one on
\* its collection.
C2_Witness ==
  /\ res.op = "updateDoc"
  /\ res.status = "not-found"
  /\ TargetPath(res) \in DOMAIN listeners
  /\ Target(res).collectionPath \in DOMAIN listeners
  /\ \E id \in MapIds(CollOf(store, Target(res).collectionPath)) : id # Target(res).id

(***************************************************************************)
(* C3.  Clone isolation.                                                    *)
(***************************************************************************)
\* The documents of the store, by value.
StoreView(h, st) ==
  [p \in DOMAIN st |->
     [i \in 1..Len(st[p]) |-> [id |-> st[p][i].id, data |-> Deref(h, st[p][i].data)]]]

\* What data() of a snapshot returns when called on the heap h.
DataOf(h, snap) ==
  IF Truthy(snap.data)
  THEN LET c == cloneH(h, snap.data) IN Deref(c.heap, c.val)
  ELSE Undefined

SnapView(h, ss) == [i \in 1..Len(ss) |-> DataOf(h, ss[i])]

\* The fields of a written record less its id field.
LessIdField(v, r) ==
  LET idField == IF r.value.idField = "" THEN "id" ELSE r.value.idField
  IN Obj([k \in DOMAIN v.f \ {idField} |-> v.f[k]])

\* C3: a mutation, by a caller, of a fields object it has written with create,
\* set, update or replaceAll, or of an object data() has returned, or of
\* anything reachable from them, changes no stored document and nothing a
\* later data() of a snapshot returns; a write stores the value the fields
\* object has at the call, and data() returns the value stored when the
\* snapshot was built, without changing the store.
C3_CloneIsolation ==
  [][/\ res'.op \in {"mutate", "data"} =>
          /\ StoreView(heap', store') = StoreView(heap, store)
          /\ SnapView(heap', snaps) = SnapView(heap, snaps)
     /\ (res'.op = "data" /\ res'.value.t = "ref") =>
          /\ res'.value.addr \notin 1..Len(heap)
          /\ \E i \in 1..Len(snaps) : /\ snaps[i].ref = res'.ref
                                      /\ Deref(heap', res'.value) = DataOf(heap, snaps[i])
     /\ res'.op \in {"addDoc", "setDoc", "updateDoc", "replaceCollection"} =>
          /\ Deref(heap', res'.data) = Deref(heap, res'.data)
          /\ SnapView(heap', snaps) = SnapView(heap, snaps)
     /\ res'.op = "addDoc" =>
          MapGet(StoreView(heap', store')[res'.ref.path], G) = Deref(heap, res'.data)
     /\ (res'.op = "setDoc" /\ ~res'.merge) =>
          MapGet(StoreView(heap', store')[C], X) = Deref(heap, res'.data)
     /\ (res'.op \in {"setDoc", "updateDoc"} /\ res'.merge = (res'.op = "setDoc")
           /\ res'.status = "ok" /\ MapHas(CollOf(store, C), X)) =>
          MapGet(StoreView(heap', store')[C], X) =
            Obj(Overlay(MapGet(StoreView(heap, store)[C], X).f, Deref(heap, res'.data).f))
     /\ res'.op = "replaceCollection" =>
          /\ Len(store'[C]) = 1
          /\ StoreView(heap', store')[C][1].data = LessIdField(Deref(heap, res'.data), res')
    ]_vars

\* The caller has written f, changed the nested object of f, read the document
\* back and now changes the Timestamp inside the list data() returned: the
\* stored document still has the value f had when it was written.
C3_Witness ==
  /\ res.op = "mutate"
  /\ res.ref.addr \notin Reachable(heap, {RootF})
  /\ res.ref.addr \in Reachable(heap, held)
  /\ heap[res.ref.addr] = Ts(Poison.n, 5)
  /\ "z" \in DOMAIN heap[1].f
  /\ Len(store[C]) = 1
  /\ MapGet(StoreView(heap, store)[C], X) = Deref(HeapF, Ref(RootF))

(***************************************************************************)
(* C4.  What a listener of a document path is told.                         *)
(***************************************************************************)
\* The (path, callback) pairs registered with a document reference.
DocListeners ==
  {k \in DOMAIN last : /\ last[k].kind = "doc"
                       /\ \E i \in 1..Len(SubsOf(listeners, k[1])) : listeners[k[1]][i] = k[2]}

\* The document path emitDoc notifies for an operation through a reference.
NotifiedDocPath(r) == IF r.op = "addDoc" THEN r.value.path ELSE TargetPath(r)

\* C4 as stated: after any operation the last snapshot given to a registered
\* callback of a document path agrees with the store on the document's
\* existence and fields.
C4_Original ==
  \A k \in DocListeners :
     /\ SnapExists(last[k]) = SnapExists(Fresh(store, last[k]))
     /\ SnapData(last[k]) = SnapData(Fresh(store, last[k]))

\* C4 amended: every create, set, update or delete of the document at path
\* c/d invokes each callback registered on c/d with a document snapshot, and
\* when no callback writes during the notification it does so once and the
\* snapshot agrees with the store as the operation leaves it; replaceAll of
\* the collection invokes only the listeners of the collection path.  (calls,
\* res and last are those of the operation that led to the state.)
C4_DocListenerNotified ==
  /\ (res.op \in {"addDoc", "setDoc", "updateDoc", "deleteDoc"} /\ res.status = "ok") =>
       \A i \in 1..Len(SubsOf(listeners, NotifiedDocPath(res))) :
          LET p == NotifiedDocPath(res)
              cb == listeners[p][i]
          IN /\ \E j \in 1..Len(calls) :
                   /\ calls[j].cb = cb /\ calls[j].path = p
                   /\ calls[j].depth = 1 /\ calls[j].snap.kind = "doc"
             /\ res.nested = 0 =>
                   /\ CountCalls(calls, cb, p) = 1
                   /\ last[<<p, cb>>] = Fresh(store, last[<<p, cb>>])
                   /\ SnapExists(last[<<p, cb>>]) =
                        MapHas(store[splitDocPath(p).collectionPath], splitDocPath(p).id)
  /\ res.op = "replaceCollection" =>
       /\ res.notified = <<res.ref.path>>
       /\ \A j \in 1..Len(calls) : calls[j].path = res.ref.path

\* A create whose generated id is that of a watched document: the document's
\* listener was given the new document.
C4_Witness ==
  /\ res.op = "addDoc"
  /\ \E k \in DocListeners :
        /\ k[1] = res.value.path
        /\ CountCalls(calls, k[2], k[1]) = 1
        /\ SnapExists(last[k])
        /\ SnapData(last[k]) = res.data

(***************************************************************************)
(* C5.  The two notifications of a write through a document reference.      *)
(***************************************************************************)
\* The collection references a document reference was built from.
Owners(docRef) == {cr \in PathCollRefs : \E id \in PathIds : doc(cr, id) = docRef}

\* Every listener registered on the path was invoked through it.
Observed(path) ==
  \A i \in 1..Len(SubsOf(listeners, path)) :
     \E j \in 1..Len(calls) : calls[j].cb = listeners[path][i] /\ calls[j].path = path

\* C5 as stated: a create, set, update or delete through a document reference
\* notifies exactly two paths, the path of that reference and then the path of
\* the collection reference it was built from, whatever strings the
\* collection path and the id are; the listeners of both are invoked.
C5_Original ==
  /\ (res.op \in {"setDoc", "updateDoc", "deleteDoc"} /\ res.status = "ok") =>
       /\ Len(res.notified) = 2
       /\ res.notified[1] = res.ref.path
       /\ Observed(res.ref.path)
       /\ \A cr \in Owners(res.ref) : res.notified[2] = cr.path /\ Observed(cr.path)
  /\ res.op = "addDoc" =>
       /\ res.notified = <<res.value.path, res.ref.path>>
       /\ Observed(res.value.path)
       /\ Observed(res.ref.path)

\* What the code does: the two paths notified are those splitDocPath makes of
\* the reference's path, "<collectionPath>/<id>" and collectionPath; a create
\* notifies "<collectionRef.path>/<id>" and collectionRef.path as given.
C5_NotifiesSplitPaths ==
  /\ (res.op \in {"setDoc", "updateDoc", "deleteDoc"} /\ res.status = "ok") =>
       /\ res.notified = <<TargetPath(res), Target(res).collectionPath>>
       /\ Observed(TargetPath(res))
       /\ Observed(Target(res).collectionPath)
  /\ res.op = "addDoc" =>
       /\ res.notified = <<res.value.path, res.ref.path>>
       /\ Observed(res.value.path)
       /\ Observed(res.ref.path)

\* A set through doc(collection("/c"), "x") while a listener is registered on
\* the collection reference "/c": the paths notified are "c/x" and "c", and
\* the listener is not invoked.
C5_Witness ==
  /\ res.op = "setDoc"
  /\ res.ref = doc(collection(Slash \o C), X)
  /\ SubsOf(listeners, Slash \o C) = <<"A">>
  /\ res.notified = <<C \o Slash \o X, C>>
  /\ calls = <<>>
  /\ MapHas(store[C], X)
  /\ store[Slash \o C] = <<>>

(***************************************************************************)
(* C6.  Run to completion.                                                  *)
(***************************************************************************)
\* C6 as stated: no store operation begins while another one is still
\* notifying, operations issued by a listener callback included.
C6_Original == res.nested = 0

\* C6 amended: an operation issued by a callback runs inside the notifying
\* operation.  An operation during which no callback issues one has written
\* the store before it builds a snapshot: every snapshot it gives to a
\* listener is that of the store as the operation leaves it.
C6_SnapshotsOfFinalState ==
  res.nested = 0 =>
    \A j \in 1..Len(calls) : calls[j].snap = Fresh(store, calls[j].snap)

\* A delete told to a document listener and to a collection listener, neither
\* of which wrote.
C6_Witness ==
  /\ res.op = "deleteDoc"
  /\ res.nested = 0
  /\ Len(calls) = 2
  /\ calls[1].snap.kind = "doc"
  /\ ~SnapExists(calls[1].snap)
  /\ calls[2].snap.kind = "collection"
  /\ res.repeat = FALSE
  /\ \E k \in DOMAIN last : k[2] = "R"

(***************************************************************************)
(* C7.  set, with and without merge.                                        *)
(***************************************************************************)
\* C7: set with merge on an existing document stores the old top-level fields
\* overlaid by the new ones (a key of the new fields takes the new value
\* whole); set without merge, or on an absent id, stores exactly the fields.
C7_SetSemantics ==
  [][res'.op = "setDoc" =>
       LET sp == Target(res')
           before == CollOf(store, sp.collectionPath)
           after == MapGet(store'[sp.collectionPath], sp.id)
       IN /\ res'.status = "ok"
          /\ MapHas(store'[sp.collectionPath], sp.id)
          /\ IF res'.merge /\ MapHas(before, sp.id)
             THEN after = Obj(Overlay(MapGet(before, sp.id).f, res'.data.f))
             ELSE after = res'.data
    ]_vars

\* {a: {n: 1}} merged onto {a: {n: 0, m: 1}, b: 2}: a is replaced whole, b kept.
C7_Witness ==
  /\ res.op = "setDoc"
  /\ res.merge
  /\ res.data = FieldsNest1
  /\ MapGet(store[C], X) = Obj(("a" :> Obj("n" :> Num(1))) @@ ("b" :> Num(2)))

(***************************************************************************)
(* C8.  delete is idempotent.                                               *)
(***************************************************************************)
\* C8: delete succeeds whether or not the document exists and leaves the
\* collection without the id; a delete of an absent document changes no
\* document, and a second delete of the same reference right after the first
\* leaves the store as the first left it.
C8_DeleteIdempotent ==
  [][res'.op = "deleteDoc" =>
       LET sp == Target(res')
       IN /\ res'.status = "ok"
          /\ ~MapHas(store'[sp.collectionPath], sp.id)
          /\ ~MapHas(CollOf(store, sp.collectionPath), sp.id) =>
               \A p \in DOMAIN store' : store'[p] = CollOf(store, p)
          /\ res'.repeat => store' = store
    ]_vars

\* The second of two consecutive deletes of one reference, another document
\* being in the collection.
C8_Witness ==
  /\ res.op = "deleteDoc"
  /\ res.repeat
  /\ res.status = "ok"
  /\ Len(store[Target(res).collectionPath]) = 1

(***************************************************************************)
(* C9.  Collections are created on first access and never removed.          *)
(***************************************************************************)
\* C9: a read of a collection that holds no document, also one the store does
\* not have yet, succeeds with size 0 and empty true; after an operation the
\* collection it addresses (the path of a collection reference, the
\* collection path a document reference splits into) is in the store; no
\* collection ever leaves the store.
C9_LazyCollections ==
  [][/\ DOMAIN store \subseteq DOMAIN store'
     /\ (res'.op = "getDocs" /\ CollOf(store, res'.ref.path) = <<>>) =>
          /\ res'.status = "ok"
          /\ res'.value.size = 0
          /\ res'.value.empty
          /\ res'.value.docs = <<>>
     /\ res'.op # "unsubscribe" =>
          IF res'.ref.type = "collection"
          THEN res'.ref.path \in DOMAIN store'
          ELSE Target(res').collectionPath \in DOMAIN store'
    ]_vars

\* The first operation of a run is a read of a collection: the store had no
\* collection, the snapshot is empty and the collection now exists.
C9_Witness ==
  /\ nops = 1
  /\ res.op = "getDocs"
  /\ res.value.empty
  /\ res.value.size = 0
  /\ DOMAIN store = {res.ref.path}

(***************************************************************************)
(* C10.  replaceAll.                                                        *)
(***************************************************************************)
ReplacedItems == res.data.a

ReplacedIdField == IF res.value.idField = "" THEN "id" ELSE res.value.idField

\* The id a record goes under: the value of its id field, or the generated id
\* when it has no such field.
Resolved(i) ==
  IF ReplacedIdField \in DOMAIN ReplacedItems[i].f
  THEN ReplacedItems[i].f[ReplacedIdField].s
  ELSE res.value.gen[i]

\* The record's fields without the id field.
Stripped(i) ==
  Obj([k \in DOMAIN ReplacedItems[i].f \ {ReplacedIdField} |-> ReplacedItems[i].f[k]])

\* C10 as stated: after replaceAll the collection holds the ids of the records
\* and every record is stored under its id with its fields less the id field.
C10_Original ==
  res.op = "replaceCollection" =>
    /\ MapIds(store[res.ref.path]) = {Resolved(i) : i \in 1..Len(ReplacedItems)}
    /\ \A i \in 1..Len(ReplacedItems) :
          MapGet(store[res.ref.path], Resolved(i)) = Stripped(i)

\* C10 amended: the collection holds exactly the ids the records resolve to,
\* and under each id the fields, less the id field, of the last record that
\* resolves to it.
C10_ReplaceAll ==
  res.op = "replaceCollection" =>
    /\ MapIds(store[res.ref.path]) = {Resolved(i) : i \in 1..Len(ReplacedItems)}
    /\ \A i \in 1..Len(ReplacedItems) :
          (\A j \in (i + 1)..Len(ReplacedItems) : Resolved(j) # Resolved(i)) =>
             MapGet(store[res.ref.path], Resolved(i)) = Stripped(i)

\* A record with idField "k" and one without it, replacing earlier contents:
\* the first is stored under y with its "id" field kept, the second under the
\* generated id.
C10_Witness ==
  /\ res.op = "replaceCollection"
  /\ nops = 3
  /\ ~res.repeat
  /\ ReplacedItems = <<ItemK, ItemNoId>>
  /\ res.value.idField = "k"
  /\ store[C] = <<[id |-> Y, data |-> Obj(("id" :> Str(X)) @@ ("a" :> Num(1)))],
                  [id |-> G, data |-> Obj("a" :> Num(0))]>>

(***************************************************************************)
(* C11.  replaceAll towards observers.                                      *)
(***************************************************************************)
\* The contents replaceAll leaves: under each id the records resolve to, the
\* fields of the last such record.
NewContents ==
  {[id |-> Resolved(i), data |-> Stripped(i)] :
     i \in {k \in 1..Len(ReplacedItems) :
              \A j \in (k + 1)..Len(ReplacedItems) : Resolved(j) # Resolved(k)}}

\* Every call replaceAll made itself is of its one notification of the
\* collection path and carries a collection snapshot of the new contents.
OwnCallsShowNewContents ==
  \A j \in 1..Len(OwnCalls(calls)) :
     LET c == OwnCalls(calls)[j]
     IN /\ c.path = res.ref.path
        /\ c.n = 1
        /\ c.snap.kind = "collection"
        /\ c.snap.size = Cardinality(NewContents)
        /\ c.snap.empty = (NewContents = {})
        /\ SnapDocs(c.snap) = NewContents

\* C11: replaceAll notifies the collection path once, after the whole
\* replacement: no listener is given a snapshot of an intermediate state, and
\* replaceAll itself invokes each listener of the collection path that stays
\* registered exactly once, in registration order, with a snapshot holding
\* exactly the new contents (a listener that an earlier callback of the same
\* notification unsubscribed is not invoked).
C11_ReplaceAllAtomic ==
  [][res'.op = "replaceCollection" =>
       LET p == res'.ref.path
           own == OwnCalls(calls')
           before == SubsOf(listeners, p)
       IN /\ res'.notified[1] = p
          /\ res'.nested = 0 => res'.notified = <<p>>
          /\ OwnCallsShowNewContents'
          /\ \A j \in 1..Len(own) : InSeq(before, own[j].cb) /\ InSeq(own[j].subs, own[j].cb)
          /\ \A j, k \in 1..Len(own) :
                j < k => PosIn(before, own[j].cb) < PosIn(before, own[k].cb)
          /\ \A i \in 1..Len(before) :
                InSeq(SubsOf(listeners', p), before[i]) =>
                   \E j \in 1..Len(own) : own[j].cb = before[i]
    ]_vars

\* A replaceAll with two listeners on the collection, the first of which
\* writes when it is given the new contents: both were given the two new
\* documents by replaceAll itself, and the store has moved on.
C11_Witness ==
  /\ res.op = "replaceCollection"
  /\ SubsOf(listeners, C) = <<"W", "A">>
  /\ Len(OwnCalls(calls)) = 2
  /\ OwnCalls(calls)[2].cb = "A"
  /\ OwnCalls(calls)[2].snap.size = 2
  /\ res.nested = 1
  /\ MapGet(store[C], X) = FieldsA2

(***************************************************************************)
(* C12.  subscribe: the initial snapshot and a later update.                *)
(***************************************************************************)
\* The document of the given id as a snapshot shows it: the snapshot itself
\* for a document snapshot, the entry of that id for a collection snapshot.
ShownDocs(snap, id) ==
  IF snap.kind = "doc" THEN (IF snap.id = id THEN {snap} ELSE {})
  ELSE {snap.docs[i] : i \in {k \in 1..Len(snap.docs) : snap.docs[k].id = id}}

ShownIds(snap) ==
  IF snap.kind = "doc" THEN <<snap.id>> ELSE [i \in 1..Len(snap.docs) |-> snap.docs[i].id]

\* onSnapshot itself calls the callback once, before returning, with the
\* snapshot of the store as it is at the call.
InitialSnapshotOnce ==
  res'.op = "onSnapshot" =>
     LET own == OwnCalls(calls')
     IN /\ Len(own) = 1
        /\ own[1].cb = regs'[Len(regs')].cb
        /\ own[1].path = res'.ref.path
        /\ own[1].n = 0
        /\ own[1].snap.ref = res'.ref
        /\ own[1].snap = Fresh(store, own[1].snap)
        /\ InSeq(own[1].subs, own[1].cb)

\* A successful update gives every listener of the document's path and of
\* its collection's path that stays registered a snapshot in which the
\* document has the same id and its fields overlaid with the updated ones.
UpdateDelivered ==
  (res'.op = "updateDoc" /\ res'.status = "ok") =>
     LET sp == splitDocPath(res'.ref.path)
         old == MapGet(CollOf(store, sp.collectionPath), sp.id)
         own == OwnCalls(calls')
     IN \A p \in {sp.collectionPath, sp.collectionPath \o Slash \o sp.id} :
          \A i \in 1..Len(SubsOf(listeners, p)) :
             LET cb == SubsOf(listeners, p)[i]
             IN InSeq(SubsOf(listeners', p), cb) =>
                  \E j \in 1..Len(own) :
                     /\ own[j].cb = cb
                     /\ own[j].path = p
                     /\ own[j].n > 0
                     /\ p = sp.collectionPath =>
                          ShownIds(own[j].snap) =
                            [k \in 1..Len(CollOf(store, p)) |-> CollOf(store, p)[k].id]
                     /\ Cardinality(ShownDocs(own[j].snap, sp.id)) = 1
                     /\ \A d \in ShownDocs(own[j].snap, sp.id) :
                           /\ SnapExists(d)
                           /\ SnapData(d) = Obj(Overlay(old.f, res'.data.f))

\* C12: subscribe invokes the callback exactly once before it returns, with a
\* snapshot of the store's current state for the reference; a later update of
\* a field of a document delivers a new snapshot in which the document has
\* the updated value and the same id.
C12_SubscribeInitialThenUpdates == [][InitialSnapshotOnce /\ UpdateDelivered]_vars

\* A document is created, a listener subscribes to its collection, and the
\* document is updated: the listener is given the one document, updated.
C12_Witness ==
  /\ res.op = "updateDoc" /\ res.status = "ok"
  /\ regs = <<[path |-> C, cb |-> "A", called |-> FALSE]>>
  /\ Len(calls) = 1
  /\ calls[1].cb = "A" /\ calls[1].path = C
  /\ calls[1].snap.size = 1
  /\ calls[1].snap.docs[1].id = X
  /\ SnapData(calls[1].snap.docs[1]) = Obj(Overlay(FieldsA1.f, FieldsA0B2.f))

(***************************************************************************)
(* C13.  One notification: who is invoked, how often, in which order.       *)
(***************************************************************************)
\* The calls of the n-th notification of the last operation, in call order.
CallsOf(n) == SelectSeq(calls, LAMBDA c : c.n = n)

\* C13: in every notification of a path, made by the operation or by a write
\* one of its callbacks made, the callbacks invoked are registered on the path
\* when invoked, none is invoked twice, they are invoked in registration
\* order, and every callback registered on the path is invoked unless it was
\* unsubscribed before its turn; all of it is done when the operation returns.
C13_NotifyEachOnceInOrder ==
  \A n \in 1..Len(res.notified) :
     LET p == res.notified[n]
         g == CallsOf(n)
     IN /\ \A j \in 1..Len(g) : g[j].path = p /\ InSeq(g[j].subs, g[j].cb)
        /\ \A j, k \in 1..Len(g) : j < k => g[j].cb # g[k].cb
        /\ \A j, k \in 1..Len(g) :
              j < k => /\ InSeq(g[j].subs, g[k].cb)
                       /\ PosIn(g[j].subs, g[j].cb) < PosIn(g[j].subs, g[k].cb)
        /\ \A j \in 1..Len(g) : \A i \in 1..Len(g[j].subs) :
              \/ \E k \in 1..Len(g) : g[k].cb = g[j].subs[i]
              \/ ~InSeq(SubsOf(listeners, p), g[j].subs[i])
        /\ \A i \in 1..Len(SubsOf(listeners, p)) :
              \E k \in 1..Len(g) : g[k].cb = SubsOf(listeners, p)[i]

\* A set of a document whose collection has two listeners: the collection's
\* notification, the second of the operation, invoked both in the order of
\* their registration, and the second of them wrote from inside it.
C13_Witness ==
  /\ res.op = "setDoc"
  /\ SubsOf(listeners, C) = <<"A", "W">>
  /\ Len(CallsOf(2)) = 2
  /\ CallsOf(2)[1].cb = "A" /\ CallsOf(2)[2].cb = "W"
  /\ CallsOf(2)[1].depth = 1 /\ CallsOf(2)[2].depth = 1
  /\ res.nested = 1

(***************************************************************************)
(* C14.  The unsubscribe function.                                          *)
(***************************************************************************)
\* The operations that write to the store.
Mutations == {"addDoc", "setDoc", "updateDoc", "deleteDoc", "replaceCollection"}

\* A registration of the callback on the path whose unsubscribe function has
\* not been called.
LiveReg(rs, path, cb) ==
  \E i \in 1..Len(rs) : rs[i].path = path /\ rs[i].cb = cb /\ ~rs[i].called

\* A mutation invokes a callback on a path only when some registration of it
\* on that path has not been unsubscribed.
NoCallAfterUnsubscribe ==
  res'.op \in Mutations =>
     \A j \in 1..Len(calls') : LiveReg(regs, calls'[j].path, calls'[j].cb)

\* Calling an unsubscribe function that was called before changes nothing.
SecondUnsubscribeHasNoEffect ==
  (res'.op = "unsubscribe" /\ regs[res'.ref.reg].called) =>
     /\ listeners' = listeners
     /\ store' = store

\* C14: once the unsubscribe function of a registration has been called, no
\* later mutation invokes the callback through that registration, and calling
\* the unsubscribe function again has no effect.
C14_Original == [][NoCallAfterUnsubscribe /\ SecondUnsubscribeHasNoEffect]_vars

\* The first registration's unsubscribe function, called a second time after
\* the same callback was registered again on the same path, has removed the
\* second registration.
C14_Witness ==
  /\ res.op = "unsubscribe" /\ res.ref.reg = 1
  /\ Len(regs) = 2
  /\ regs[2].path = regs[1].path /\ regs[2].cb = regs[1].cb
  /\ ~regs[2].called
  /\ ~InSeq(SubsOf(listeners, regs[2].path), regs[2].cb)
  /\ nops = 4

(***************************************************************************)
(* C15.  The listener registry has no empty entry.                          *)
(***************************************************************************)
\* C15: the registry has an entry for a path exactly when at least one
\* listener is in the path's set: onSnapshot leaves the callback in the entry
\* of its path, an unsubscribe call that takes the last listener of a path
\* leaves no entry for it, and no entry holds an empty set, neither between
\* operations nor when a callback is invoked.
C15_NoEmptyRegistryEntry ==
  /\ \A p \in DOMAIN listeners : listeners[p] # <<>>
  /\ \A j \in 1..Len(calls) : calls[j].subs # <<>>
  /\ res.op = "onSnapshot" => InSeq(SubsOf(listeners, res.ref.path), regs[Len(regs)].cb)
  /\ res.op = "unsubscribe" =>
        ~InSeq(SubsOf(listeners, res.ref.path), regs[res.ref.reg].cb)

\* Two listeners were registered on two paths and the one on the collection
\* unsubscribed: its path has no entry any more, the other path has its own.
C15_Witness ==
  /\ res.op = "unsubscribe"
  /\ Len(regs) = 2
  /\ regs[1].path = C /\ regs[1].called
  /\ regs[2].path # C /\ ~regs[2].called
  /\ DOMAIN listeners = {regs[2].path}
  /\ listeners[regs[2].path] = <<regs[2].cb>>

(***************************************************************************)
(* C16.  create and the generated id.                                       *)
(***************************************************************************)
\* The id generateId() returned to the create that res records.
CreatedId(r) == CHOOSE id \in GenIds : r.value.path = r.ref.path \o Slash \o id

\* The documents of a collection other than the one of the given id.
Others(coll, id) == SelectSeq(coll, LAMBDA d : d.id # id)

\* C16 as stated: create stores the fields under an id that was not in the
\* collection, which has one document more afterwards, every earlier document
\* unchanged.
C16_Original ==
  [][res'.op = "addDoc" =>
       LET p == res'.ref.path
           before == CollOf(store, p)
       IN /\ ~MapHas(before, CreatedId(res'))
          /\ Len(store'[p]) = Len(before) + 1
          /\ \A i \in 1..Len(before) : store'[p][i] = before[i]
    ]_vars

\* C16, amended: create stores a clone of the fields under the generated id
\* and changes no document of another id and no other collection; when the
\* generated id was not in the collection the collection has one document
\* more, the new one last; when it was, the document of that id is
\* overwritten in place and the collection has as many documents as before.
C16_CreateStoresUnderGeneratedId ==
  [][res'.op = "addDoc" =>
       LET p == res'.ref.path
           id == CreatedId(res')
           before == CollOf(store, p)
       IN /\ res'.status = "ok"
          /\ res'.value = [type |-> "doc", path |-> p \o Slash \o id]
          /\ MapGet(store'[p], id) = clone(res'.data)
          /\ Others(store'[p], id) = Others(before, id)
          /\ \A q \in DOMAIN store' \ {p} : q \in DOMAIN store /\ store'[q] = store[q]
          /\ DOMAIN store \subseteq DOMAIN store'
          /\ IF MapHas(before, id)
             THEN /\ Len(store'[p]) = Len(before)
                  /\ MapIndex(store'[p], id) = MapIndex(before, id)
             ELSE /\ Len(store'[p]) = Len(before) + 1
                  /\ store'[p][Len(store'[p])].id = id
                  /\ \A i \in 1..Len(before) : store'[p][i] = before[i]
    ]_vars

\* A create whose generated id was already in the collection: the document of
\* that id, still ahead of a document created after it, has the new fields.
C16_Witness ==
  /\ res.op = "addDoc"
  /\ CreatedId(res) = X
  /\ res.ref.path = C
  /\ Len(store[C]) = 2
  /\ store[C][1].id = X /\ store[C][2].id = G
  /\ store[C][1].data = clone(res.data)

(***************************************************************************)
(* C17.  exists() and data() of a document snapshot.                        *)
(***************************************************************************)
\* The document snapshots a snapshot consists of.
DocSnapsIn(snap) ==
  IF snap.kind = "doc" THEN {snap} ELSE {snap.docs[i] : i \in 1..Len(snap.docs)}

\* The document snapshots the latest operation built: those it returned and
\* those it gave to listeners.
BuiltDocSnaps ==
  (IF res.op \in {"getDoc", "getDocs"} THEN DocSnapsIn(res.value) ELSE {})
    \cup UNION {DocSnapsIn(calls[j].snap) : j \in 1..Len(calls)}

\* C17: a document snapshot's exists() is true exactly when the id was in its
\* collection when the snapshot was built, and its data() is undefined exactly
\* when exists() is false; a read of a document never fails, an unknown
\* document giving exists() false and data() undefined.  (No callback writes
\* here, so each snapshot of an operation is built on the store the operation
\* leaves.)
C17_ExistsIffPresent ==
  /\ \A d \in BuiltDocSnaps :
        LET sp == splitDocPath(d.ref.path)
        IN /\ d.id = sp.id
           /\ SnapExists(d) <=> MapHas(CollOf(store, sp.collectionPath), sp.id)
           /\ (SnapData(d) = Undefined) <=> ~SnapExists(d)
           /\ SnapExists(d) => SnapData(d) = MapGet(store[sp.collectionPath], sp.id)
  /\ res.op = "getDoc" =>
        /\ res.status = "ok"
        /\ res.value.kind = "doc"
        /\ res.value.ref.path = TargetPath(res)

\* A read of an unknown document next to a document stored without fields,
\* whose listener was given a snapshot that exists.
C17_Witness ==
  /\ res.op = "getDoc"
  /\ res.ref = doc(collection(C), Y)
  /\ ~SnapExists(res.value)
  /\ SnapData(res.value) = Undefined
  /\ MapGet(store[C], X) = FieldsNone
  /\ <<C \o Slash \o X, "A">> \in DOMAIN last
  /\ SnapExists(last[<<C \o Slash \o X, "A">>])
  /\ SnapData(last[<<C \o Slash \o X, "A">>]) = FieldsNone

(***************************************************************************)
(* C18.  Snapshots are point-in-time.                                       *)
(***************************************************************************)
\* What a caller reads from a document snapshot it keeps: exists() and data().
ReadDoc(h, snap) ==
  [id |-> snap.id, exists |-> Truthy(snap.data),
   data |-> IF Truthy(snap.data) THEN Deref(cloneH(h, snap.data).heap, cloneH(h, snap.data).val)
            ELSE Undefined]

\* What a caller reads from a snapshot it keeps: for a collection snapshot
\* docs, size and empty.
ReadSnap(h, snap) ==
  IF snap.kind = "doc" THEN ReadDoc(h, snap)
  ELSE [docs |-> [i \in 1..Len(snap.docs) |-> ReadDoc(h, snap.docs[i])],
        size |-> snap.size, empty |-> snap.empty]

\* C18: what a snapshot the caller keeps returns from exists(), data(), docs,
\* size and empty is not changed by a later create, set (merge or not),
\* update, delete or replaceAll.
C18_SnapshotsPointInTime ==
  [][\A i \in 1..Len(snaps) : ReadSnap(heap', snaps[i]) = ReadSnap(heap, snaps[i])]_vars

\* The caller keeps a snapshot of the document and one of its collection, and
\* the document has been updated since: both still show it without the field
\* the update added.
C18_Witness ==
  /\ res.op = "updateDoc" /\ res.status = "ok"
  /\ "a" \in DOMAIN Deref(heap, MapGet(store[C], X)).f
  /\ \E i, j \in 1..Len(snaps) :
        /\ snaps[i].kind = "doc"
        /\ ReadSnap(heap, snaps[i]).exists
        /\ "a" \notin DOMAIN ReadSnap(heap, snaps[i]).data.f
        /\ snaps[j].kind = "collection"
        /\ snaps[j].size = 1
        /\ ReadSnap(heap, snaps[j]).docs[1] = ReadSnap(heap, snaps[i])

(***************************************************************************)
(* C19.  Path addressing round-trips.                                       *)
(***************************************************************************)
RECURSIVE Runs(_, _, _)
\* The maximal runs of characters other than "/" in a string, left to right:
\* cur is the run being read, acc the runs read.
Runs(s, cur, acc) ==
  IF s = <<>> THEN (IF cur = <<>> THEN acc ELSE Append(acc, cur))
  ELSE IF Head(s) = "/"
  THEN Runs(Tail(s), <<>>, IF cur = <<>> THEN acc ELSE Append(acc, cur))
  ELSE Runs(Tail(s), Append(cur, Head(s)), acc)

\* A string that is one non-empty segment without "/".
IsSegment(s) == s # <<>> /\ \A i \in 1..Len(s) : s[i] # "/"

\* A string made of non-empty segments without "/", joined by "/".
IsSegments(s) ==
  /\ s # <<>>
  /\ s[1] # "/" /\ s[Len(s)] # "/"
  /\ \A i \in 1..(Len(s) - 1) : ~(s[i] = "/" /\ s[i + 1] = "/")

\* C19: doc(collectionRef, id) has the path collectionPath + "/" + id; the
\* split of a path has its last non-empty segment as the id and the other
\* non-empty segments, joined by "/", as the collection path; so for a
\* collection path made of non-empty segments without "/" and an id that is
\* one such segment, the split of the document's path gives back the
\* collection path and the id, also when the path is given with a leading or
\* a trailing "/".
C19_PathRoundTrip ==
  /\ res.op = "splitDocPath" =>
        LET runs == Runs(res.path, <<>>, <<>>)
        IN IF runs = <<>> THEN res.out = [collectionPath |-> <<>>, id |-> <<>>]
           ELSE /\ res.out.id = runs[Len(runs)]
                /\ Runs(res.out.collectionPath, <<>>, <<>>) = SubSeq(runs, 1, Len(runs) - 1)
                /\ res.out.collectionPath # <<>> => IsSegments(res.out.collectionPath)
  /\ res.op = "docSplit" =>
        /\ res.ref = [type |-> "doc", path |-> res.path \o Slash \o res.id]
        /\ (IsSegments(res.path) /\ IsSegment(res.id)) =>
              res.out = [collectionPath |-> res.path, id |-> res.id]

\* The path "c/x" and the id "xx", the document's path given with a "/"
\* before and after it.
C19_Witness ==
  /\ res.op = "docSplit"
  /\ res.path = <<"c", "/", "x">>
  /\ res.id = <<"x", "x">>
  /\ res.given = <<"/", "c", "/", "x", "/", "x", "x", "/">>
  /\ res.out = [collectionPath |-> res.path, id |-> res.id]

(***************************************************************************)
(* C20.  doc(...) and its two calling conventions.                          *)
(***************************************************************************)
\* C20: doc fails with the invalid-arguments error, the store and the
\* listener registry as they were, exactly when it is given fewer than two
\* arguments, a first argument that is neither a collection reference nor a
\* database reference, or a collection reference followed by more than one
\* segment; in every other case it returns a document reference.
C20_DocArguments ==
  res.op = "doc" =>
     LET args == res.args
         invalid == \/ Len(args) < 2
                    \/ ~isCollectionRef(args[1]) /\ ~isDbRef(args[1])
                    \/ isCollectionRef(args[1]) /\ Len(args) > 2
     IN /\ store = AddrStore
        /\ listeners = AddrListeners
        /\ invalid => res.out = InvalidDocArguments
        /\ ~invalid => /\ res.out.status = "ok"
                       /\ res.out.value.type = "doc"
                       /\ DOMAIN res.out.value = {"type", "path"}
                       /\ isCollectionRef(args[1]) =>
                            res.out.value.path = args[1].ref.path \o Slash \o StringOf(args[2])

\* doc given a collection reference and two segments: the error.
C20_Witness ==
  /\ res.op = "doc"
  /\ res.args = <<ArgColl(collection(C)), ArgVal(Str(X)), ArgVal(Str(X))>>
  /\ res.out = InvalidDocArguments
  /\ store = AddrStore /\ listeners = AddrListeners

(***************************************************************************)
(* Timestamps.  Milliseconds are integers (Date.now(), Date.getTime()); on  *)
(* them Math.floor(x / 1000) is the integer quotient rounded down.  The     *)
(* specification of the timestamps starts from any millisecond value of the *)
(* range, builds a Timestamp from it with one of the three constructors,    *)
(* converts it back, or writes it to the store and reads it.                *)
(***************************************************************************)
\* Mutant: the quotient rounded towards zero.
fromMillisTruncating(milliseconds) ==
  LET seconds == IF milliseconds >= 0 THEN milliseconds \div 1000
                 ELSE -((-milliseconds) \div 1000)
  IN Ts(seconds, (milliseconds - seconds * 1000) * 1000000)

\* Timestamp.fromMillis
fromMillis(milliseconds) ==
  LET seconds == milliseconds \div 1000
  IN Ts(seconds, (milliseconds - seconds * 1000) * 1000000)

\* Timestamp.fromDate(date), date.getTime() being the given milliseconds.
fromDate(getTime) == fromMillis(getTime)

\* Timestamp.now(), Date.now() being the given milliseconds.
now(dateNow) == fromMillis(dateNow)

\* Mutant: the nanoseconds are left out.
toMillisOfSeconds(ts) == ts.seconds * 1000

\* Timestamp.toMillis
toMillis(ts) == ts.seconds * 1000 + (ts.nanoseconds \div 1000000)

\* The milliseconds of the range: -MaxMillis .. MaxMillis.
MaxMillis == 1500
Constructors == {"fromMillis", "fromDate", "now"}

InitTime ==
  /\ store = NoMap
  /\ listeners = NoMap
  /\ regs = <<>>
  /\ last = NoMap
  /\ calls = <<>>
  /\ nops = 0
  /\ heap = <<>>
  /\ held = {}
  /\ snaps = <<>>
  /\ sim = NoSim
  /\ js = NoJs
  /\ \E m \in (-MaxMillis)..MaxMillis : res = [op |-> "millis", ms |-> m]

Construct(kind) ==
  /\ res.op = "millis"
  /\ res' = [op |-> kind, ms |-> res.ms,
             ts |-> IF kind = "fromMillis" THEN fromMillis(res.ms)
                    ELSE IF kind = "fromDate" THEN fromDate(res.ms)
                    ELSE now(res.ms)]
  /\ nops' = nops + 1
  /\ UNCHANGED <<store, listeners, regs, last, calls, heap, held, snaps, sim, js>>

ToMillis ==
  /\ res.op \in Constructors
  /\ res' = [op |-> "toMillis", ms |-> res.ms, ts |-> res.ts, out |-> toMillis(res.ts)]
  /\ nops' = nops + 1
  /\ UNCHANGED <<store, listeners, regs, last, calls, heap, held, snaps, sim, js>>

NextTime ==
  \/ \E kind \in Constructors : Construct(kind)
  \/ ToMillis
  \/ \E mg \in BOOLEAN :
        res.op \in Constructors /\ SetDoc(doc(collection(C), X), Obj("t" :> res.ts), mg)
  \/ res.op = "setDoc" /\ GetDoc(doc(collection(C), X))

SpecTime == InitTime /\ [][NextTime]_vars

(***************************************************************************)
(* C21.  fromMillis and toMillis.                                           *)
(***************************************************************************)
\* C21: for every integer millisecond value m, negative ones included,
\* fromMillis(m).toMillis() is m and the seconds are the floor of m / 1000.
C21_MillisRoundTrip ==
  res.op = "toMillis" =>
     /\ res.out = res.ms
     /\ res.ts.seconds * 1000 <= res.ms
     /\ res.ms < (res.ts.seconds + 1) * 1000

\* -1001 ms: second -2 and 999 ms into it.
C21_Witness ==
  /\ res.op = "toMillis"
  /\ res.ms = -1001
  /\ res.ts = Ts(-2, 999000000)
  /\ res.out = -1001

(***************************************************************************)
(* C22.  The range of the nanoseconds.                                      *)
(***************************************************************************)
InRange(ts) == 0 <= ts.nanoseconds /\ ts.nanoseconds < 1000000000

\* The Timestamps that are fields of the documents of the store.
StoredTimestamps ==
  UNION {UNION {{store[p][i].data.f[k] : k \in {j \in DOMAIN store[p][i].data.f :
                                                   store[p][i].data.f[j].t = "ts"}}
                : i \in 1..Len(store[p])} : p \in DOMAIN store}

\* C22: a Timestamp built by fromMillis, fromDate or now from integer
\* milliseconds, negative ones included, has 0 <= nanoseconds < 1000000000;
\* clone keeps seconds and nanoseconds, so such a Timestamp written to the
\* store is stored, and read back, with the same seconds and nanoseconds and
\* every Timestamp in the store is in that range.
C22_NanosecondsInRange ==
  /\ res.op \in Constructors \cup {"toMillis"} => InRange(res.ts)
  /\ \A ts \in StoredTimestamps : InRange(ts)
  /\ res.op = "setDoc" =>
        /\ clone(res.data.f["t"]) = res.data.f["t"]
        /\ MapGet(store[C], X).f["t"] = res.data.f["t"]
  /\ res.op = "getDoc" => SnapData(res.value).f["t"] = MapGet(store[C], X).f["t"]

\* now() at -1 ms is written to the store: second -1, 999000000 ns.
C22_Witness ==
  /\ res.op = "setDoc"
  /\ res.data = Obj("t" :> Ts(-1, 999000000))
  /\ StoredTimestamps = {Ts(-1, 999000000)}

(***************************************************************************)
(* C23.  The operations that cannot fail.                                   *)
(***************************************************************************)
\* C23: read, create, set, delete, subscribe, unsubscribe and replaceAll
\* complete successfully in every state of the store and of the registry;
\* update fails only with not-found and only when the document is absent
\* (and then has written nothing, C2).  The callbacks return normally.
C23_OnlyUpdateFails ==
  /\ res.op # "updateDoc" => res.status = "ok"
  /\ res.op = "updateDoc" => res.status \in {"ok", "not-found"}
  /\ (res.op = "updateDoc" /\ res.status = "not-found") =>
        ~MapHas(CollOf(store, Target(res).collectionPath), Target(res).id)
  /\ (res.op = "updateDoc" /\ res.status = "ok" /\ res.nested = 0) =>
        MapHas(CollOf(store, Target(res).collectionPath), Target(res).id)
  /\ res.op \in {"getDoc", "getDocs"} => res.value.kind \in {"doc", "collection"}
  /\ res.op = "addDoc" => res.value.type = "doc"

\* The first operation of all is the delete of a document of a collection
\* the store did not have: it succeeds and the collection is there, empty.
C23_Witness ==
  /\ res.op = "deleteDoc"
  /\ res.status = "ok"
  /\ nops = 1
  /\ store = (C :> <<>>)

(***************************************************************************)
(* The route layer: POST creates a vehicle from the request body, PATCH     *)
(* sets fields of the vehicle of the given id, with merge.  The body is the *)
(* parsed request; a Timestamp in it is one the caller built.               *)
(***************************************************************************)
Vehicles == <<"v", "e", "h", "i", "c", "l", "e", "s">>

\* An ISO date string: "1970", the first millisecond of that year.
Iso1970 == <<"1", "9", "7", "0">>

\* new Date(string).getTime(): the milliseconds, or NaN.
DateGetTime(s) == IF s = Iso1970 THEN [nan |-> FALSE, ms |-> 0] ELSE [nan |-> TRUE]

\* Mutant: a plain object with numeric seconds becomes a Timestamp too.
normalizeUpdatedAtObjects(value) ==
  IF ~Truthy(value) THEN value
  ELSE IF value.t = "ts" THEN value
  ELSE IF value.t = "num" THEN fromMillis(value.n)
  ELSE IF value.t = "str" /\ ~DateGetTime(value.s).nan THEN fromDate(DateGetTime(value.s).ms)
  ELSE IF value.t = "obj" /\ "seconds" \in DOMAIN value.f /\ value.f["seconds"].t = "num"
  THEN Ts(value.f["seconds"].n,
          IF "nanoseconds" \in DOMAIN value.f THEN value.f["nanoseconds"].n ELSE 0)
  ELSE value

normalizeUpdatedAt(value) ==
  IF ~Truthy(value) THEN value
  ELSE IF value.t = "ts" THEN value
  ELSE IF value.t = "num" THEN fromMillis(value.n)
  ELSE IF value.t = "str" /\ ~DateGetTime(value.s).nan THEN fromDate(DateGetTime(value.s).ms)
  ELSE value

\* { ...payload } with updatedAt normalized when the key is there.
Normalized(fields) ==
  IF "updatedAt" \in DOMAIN fields
  THEN [fields EXCEPT !["updatedAt"] = normalizeUpdatedAt(fields["updatedAt"])]
  ELSE fields

\* The update-time values a caller supplies: milliseconds, an ISO date
\* string, a plain {seconds, nanoseconds} object, a Timestamp.
PlainSeconds == Obj(("seconds" :> Num(1)) @@ ("nanoseconds" :> Num(5)))
UpdatedAtIn == {Num(0), Num(1500), Num(-1), Str(Iso1970), PlainSeconds, Ts(1, 5)}
VinOnly == "vin" :> Str(X)
RouteFields == {VinOnly} \cup {("updatedAt" :> v) @@ VinOnly : v \in UpdatedAtIn}

\* Date.now() when the request is served.
DateNow == 1500

\* Requests in one run.
MaxRequests == 3

\* router.post("/")
Post(payload, id) ==
  /\ nops < MaxRequests
  /\ LET norm == Normalized(payload)
         nextPayload == IF "updatedAt" \notin DOMAIN norm \/ ~Truthy(norm["updatedAt"])
                        THEN ("updatedAt" :> now(DateNow)) @@ norm
                        ELSE norm
         m == addDocM(Machine, collection(Vehicles), Obj(nextPayload), id)
     IN Commit(m, [op |-> "POST", body |-> payload, id |-> id, status |-> 201,
                   nested |-> m.nested, notified |-> m.notified])

\* router.patch("/"): id is the body's id, the empty string when it has none.
Patch(id, updates) ==
  /\ nops < MaxRequests
  /\ IF id = <<>>
     THEN Commit(Machine, [op |-> "PATCH", body |-> updates, id |-> id, status |-> 400,
                           nested |-> 0, notified |-> <<>>])
     ELSE LET m == setDocM(Machine, doc(collection(Vehicles), id), Obj(Normalized(updates)), TRUE)
          IN Commit(m, [op |-> "PATCH", body |-> updates, id |-> id, status |-> 200,
                        nested |-> m.nested, notified |-> m.notified])

NextRoute ==
  \/ \E payload \in RouteFields, id \in GenIds : Post(payload, id)
  \/ \E id \in {X, <<>>}, updates \in RouteFields : Patch(id, updates)

SpecRoute == Init /\ [][NextRoute]_vars

(***************************************************************************)
(* C24.  The update time the route layer stores.                            *)
(***************************************************************************)
\* The update time of the vehicle of the given id, Undefined when it has none.
UpdatedAtOf(id) ==
  LET d == MapGet(CollOf(store, Vehicles), id)
  IN IF d.t = "obj" /\ "updatedAt" \in DOMAIN d.f THEN d.f["updatedAt"] ELSE Undefined

\* C24: a vehicle written by POST or PATCH with an update time that is a
\* millisecond number, an ISO date string, a plain {seconds, nanoseconds}
\* object or a Timestamp holds a Timestamp in updatedAt, and a POST without
\* an update time stores the current time as a Timestamp.
C24_Original ==
  /\ (res.op = "POST" /\ "updatedAt" \in DOMAIN res.body) => UpdatedAtOf(res.id).t = "ts"
  /\ (res.op = "POST" /\ "updatedAt" \notin DOMAIN res.body) =>
        UpdatedAtOf(res.id) = now(DateNow)
  /\ (res.op = "PATCH" /\ res.status = 200 /\ "updatedAt" \in DOMAIN res.body) =>
        UpdatedAtOf(res.id).t = "ts"

\* A PATCH with a plain {seconds, nanoseconds} object has stored that object.
C24_Witness ==
  /\ res.op = "PATCH"
  /\ res.status = 200
  /\ "updatedAt" \in DOMAIN res.body
  /\ res.body["updatedAt"] = PlainSeconds
  /\ UpdatedAtOf(res.id) = PlainSeconds

(***************************************************************************)
(* C25.  A collection snapshot and the store it was built on.               *)
(***************************************************************************)
\* The collection snapshots the latest operation built: the one it returned
\* and those it gave to listeners.
BuiltCollectionSnaps ==
  (IF res.op = "getDocs" THEN {res.value} ELSE {})
    \cup {calls[j].snap : j \in {k \in 1..Len(calls) : calls[k].snap.kind = "collection"}}

\* C25: a collection snapshot has one document snapshot per document of the
\* collection as it was when the snapshot was built, in the collection's
\* order, none twice and none missing, each with the document's id, path and
\* fields; size is the number of docs, empty is true exactly when size is 0,
\* and docChanges() has one entry per element of docs, in the same order, each
\* tagged "added".  (No callback writes here, so each snapshot of an
\* operation is built on the store the operation leaves.)
C25_CollectionSnapshotConsistent ==
  \A s \in BuiltCollectionSnaps :
     LET coll == CollOf(store, s.ref.path)
     IN /\ s.ref.path \in DOMAIN store
        /\ Len(s.docs) = Len(coll)
        /\ \A i \in 1..Len(coll) :
              /\ s.docs[i].id = coll[i].id
              /\ s.docs[i].ref = [type |-> "doc", path |-> s.ref.path \o Slash \o coll[i].id]
              /\ SnapExists(s.docs[i])
              /\ SnapData(s.docs[i]) = coll[i].data
        /\ \A i, j \in 1..Len(s.docs) : i # j => s.docs[i].id # s.docs[j].id
        /\ s.size = Len(s.docs)
        /\ s.empty <=> (s.size = 0)
        /\ Len(docChanges(s)) = Len(s.docs)
        /\ \A i \in 1..Len(s.docs) :
              docChanges(s)[i] = [type |-> "added", doc |-> s.docs[i]]

\* A read of a collection of two documents, one of them without fields.
C25_Witness ==
  /\ res.op = "getDocs"
  /\ res.value.size = 2
  /\ ~res.value.empty
  /\ \E i \in 1..2 : SnapData(res.value.docs[i]) = FieldsNone
  /\ Len(docChanges(res.value)) = 2

(***************************************************************************)
(* Nested paths: the collection "c" with its document "c/x", and the        *)
(* collection "c/x" with its document "c/x/y".  Callback A is registered on *)
(* collection references only, callback B on document references only.      *)
(***************************************************************************)
CX == C \o Slash \o X
NestedCollRefs == {collection(C), collection(CX)}
NestedDocRefs == {doc(collection(C), X), doc(collection(CX), Y)}

\* Operations in one run of these.
MaxNestedOps == 3

NextNested ==
  \/ \E cr \in NestedCollRefs : nops < MaxNestedOps /\ OnSnapshot(cr, "A")
  \/ \E dr \in NestedDocRefs : nops < MaxNestedOps /\ OnSnapshot(dr, "B")
  \/ \E i \in 1..MaxRegs : nops < MaxNestedOps /\ Unsubscribe(i)
  \/ \E cr \in NestedCollRefs : nops < MaxNestedOps /\ AddDoc(cr, FieldsA1, G)
  \/ \E dr \in NestedDocRefs, mg \in BOOLEAN : nops < MaxNestedOps /\ SetDoc(dr, FieldsA1, mg)
  \/ \E dr \in NestedDocRefs : nops < MaxNestedOps /\ UpdateDoc(dr, FieldsA0B2)
  \/ \E dr \in NestedDocRefs : nops < MaxNestedOps /\ DeleteDoc(dr)
  \/ \E cr \in NestedCollRefs :
        nops < MaxNestedOps /\ ReplaceCollection(cr.path, <<ItemX>>, "", <<G>>)

SpecNested == Init /\ [][NextNested]_vars

(***************************************************************************)
(* C26.  The kind of snapshot a callback is given.                          *)
(***************************************************************************)
\* C26: a callback registered on a collection reference is given collection
\* snapshots of that collection only, and a callback registered on a document
\* reference document snapshots of that document only, at registration and
\* at every later notification, also when one path string names a collection
\* and a document.
C26_Original ==
  \A j \in 1..Len(calls) :
     /\ calls[j].cb = "A" => /\ calls[j].snap.kind = "collection"
                             /\ calls[j].snap.ref = collection(calls[j].path)
     /\ calls[j].cb = "B" => /\ calls[j].snap.kind = "doc"
                             /\ calls[j].snap.ref = [type |-> "doc", path |-> calls[j].path]

\* The callback registered on the collection "c/x" has been given a document
\* snapshot, that of the document "x" of the collection "c", by a set of it.
C26_Witness ==
  /\ res.op = "setDoc"
  /\ res.ref = doc(collection(C), X)
  /\ regs = <<[path |-> CX, cb |-> "A", called |-> FALSE]>>
  /\ Len(calls) = 1
  /\ calls[1].cb = "A"
  /\ calls[1].snap.kind = "doc"
  /\ calls[1].snap.id = X

(***************************************************************************)
(* C27.  Registrations are independent.                                     *)
(***************************************************************************)
\* C27: a registration whose own unsubscribe function has not been called
\* has its callback in the set of its path and is notified of every mutation
\* of its path, whatever other registrations were unsubscribed, those of the
\* same callback on the same path included.
C27_Original ==
  \A i \in 1..Len(regs) :
     ~regs[i].called =>
        /\ InSeq(SubsOf(listeners, regs[i].path), regs[i].cb)
        /\ res.op \in Mutations =>
              \A n \in 1..Len(res.notified) :
                 res.notified[n] = regs[i].path =>
                    \E j \in 1..Len(calls) :
                       calls[j].n = n /\ calls[j].cb = regs[i].cb /\ calls[j].path = regs[i].path

\* One callback was registered twice on the collection and the first
\* registration unsubscribed: a set of a document of the collection has
\* notified the collection's path and invoked nothing.
C27_Witness ==
  /\ res.op = "setDoc"
  /\ Len(regs) = 2
  /\ regs[1] = [path |-> C, cb |-> "A", called |-> TRUE]
  /\ regs[2] = [path |-> C, cb |-> "A", called |-> FALSE]
  /\ InSeq(res.notified, C)
  /\ calls = <<>>

(***************************************************************************)
(* C28.  The reference create returns.                                      *)
(***************************************************************************)
\* C28: for every collection path string, a read of the reference create
\* returned, right after the create, gives a snapshot that exists, whose
\* data() is the fields created and whose id is the id under which the
\* document is in the collection of the collection reference.
C28_Original ==
  [][(res.op = "addDoc" /\ res'.op = "getDoc" /\ res'.ref = res.value) =>
        /\ SnapExists(res'.value)
        /\ SnapData(res'.value) = clone(res.data)
        /\ MapHas(CollOf(store', res.ref.path), res'.value.id)
        /\ MapGet(CollOf(store', res.ref.path), res'.value.id) = clone(res.data)
    ]_vars

\* A document was created in the collection "/c" and the reference returned
\* was read: the document is in "/c", the snapshot does not exist.
C28_Witness ==
  /\ res.op = "getDoc"
  /\ res.ref = doc(collection(Slash \o C), X)
  /\ ~SnapExists(res.value)
  /\ nops = 2
  /\ MapGet(CollOf(store, Slash \o C), X) = FieldsA1

(***************************************************************************)
(* C29.  What a write to one document leaves alone.                         *)
(***************************************************************************)
DocWrites == {"setDoc", "updateDoc", "deleteDoc"}

\* The documents of the collection at path, in their order, without the one
\* the operation of result r addresses.
OtherDocs(st, path, r) ==
  SelectSeq(CollOf(st, path),
            LAMBDA e : ~(path = Target(r).collectionPath /\ e.id = Target(r).id))

\* C29: a set, update or delete addressed to document d of collection c
\* leaves every other document of c and every document of every other
\* collection as it was, and leaves the listener registry as it was.
C29_WriteTouchesOneDocument ==
  [][(res'.op \in DocWrites /\ nops' = nops + 1) =>
        /\ \A path \in DOMAIN store \cup DOMAIN store' :
              OtherDocs(store', path, res') = OtherDocs(store, path, res')
        /\ listeners' = listeners
    ]_vars

\* A delete removed c/x while the collection c keeps another document and a
\* callback that listens on c/x was notified.
C29_Witness ==
  /\ res.op = "deleteDoc"
  /\ Target(res) = [collectionPath |-> C, id |-> X]
  /\ ~MapHas(CollOf(store, C), X)
  /\ MapHas(CollOf(store, C), G)
  /\ Len(SubsOf(listeners, C \o Slash \o X)) = 1
  /\ res.notified # <<>>

(***************************************************************************)
(* The frontend: the provider's effect seeds the store once and sets an     *)
(* interval; every tick of the interval reads the vehicles and the users,   *)
(* waits for the two reads and updates one vehicle it read.  The dialog of  *)
(* the application creates, sets and updates vehicles.  A timer callback,   *)
(* an effect and the part of a handler after its request are tasks; what    *)
(* follows an await waits in sim.micro and runs in the order of the waits.  *)
(* A task may start while reactions wait: the orders the event loop allows  *)
(* are among the orders of these runs.                                      *)
(***************************************************************************)
Users == <<"u", "s", "e", "r", "s">>
U1 == <<"u", "1">>

initialUsers == <<Obj("id" :> Str(U1))>>

\* Two of the hundred vehicles; the second has a price the decrease would
\* take below the floor.
initialVehicles ==
  <<Obj(("id" :> Str(X)) @@ ("book_price" :> Num(14850)) @@ ("updatedBy" :> Str(U1))),
    Obj(("id" :> Str(Y)) @@ ("book_price" :> Num(600)) @@ ("updatedBy" :> Str(U1)))>>

\* Math.round(Math.random() * 900 - 450): its two ends.
PriceDeltas == {-450, 450}

\* What the dialog writes.
localUpdates == Obj(("book_price" :> Num(1000)) @@ ("updatedBy" :> Str(U1)))

\* The ids the dialog addresses: a seeded vehicle, or the one it created.
EditIds == {X, G}

\* Tasks and promise reactions in one run of these.
MaxSimOps == 5

Max(a, b) == IF a > b THEN a ELSE b

TaskReady == nops < MaxSimOps

CommitSim(m, r, s) ==
  /\ store' = m.store
  /\ listeners' = m.listeners
  /\ last' = m.last
  /\ calls' = m.calls
  /\ res' = r
  /\ nops' = nops + 1
  /\ regs' = m.regs
  /\ sim' = s
  /\ UNCHANGED <<heap, held, snaps, js>>

\* The ids of the vehicles, in the order of the collection.
VehicleIds(st) == [i \in 1..Len(CollOf(st, Vehicles)) |-> CollOf(st, Vehicles)[i].id]

SimResult(op, ref, m) ==
  [op |-> op, ref |-> ref, status |-> m.status, nested |-> m.nested, notified |-> m.notified,
   read |-> <<>>, before |-> VehicleIds(store)]

\* useEffect: seeds when seededRef.current is false, then setInterval.
Effect ==
  /\ TaskReady
  /\ ~sim.interval
  /\ LET gen == <<G, G>>
         m == IF sim.seeded THEN Machine
              ELSE replaceCollectionM(replaceCollectionM(Machine, Users, initialUsers, "id", gen),
                                      Vehicles, initialVehicles, "id", gen)
     IN CommitSim(m, SimResult("effect", Undefined, m),
                  [sim EXCEPT !.seeded = TRUE, !.interval = TRUE])

\* The effect's cleanup: clearInterval.
Cleanup ==
  /\ TaskReady
  /\ sim.interval
  /\ CommitSim(Machine, SimResult("cleanup", Undefined, Machine), [sim EXCEPT !.interval = FALSE])

\* The interval's callback up to its await: the two reads are made.
TickStart ==
  /\ TaskReady
  /\ sim.interval
  /\ LET st == ensureCollection(ensureCollection(store, Vehicles), Users)
         m == [Machine EXCEPT !.store = st]
     IN CommitSim(m, SimResult("tick", collection(Vehicles), m),
                  [sim EXCEPT !.micro = Append(@, [task |-> "tick",
                       vehicleSnapshot |-> createCollectionSnapshot(store, Vehicles),
                       userSnapshot |-> createCollectionSnapshot(ensureCollection(store, Vehicles),
                                                                 Users)])])

\* Mutant: the tick addresses any vehicle id, read or not.
TickTargetsAnyId(vehicleSnapshot) == {X, Y, G}

\* vehicleSnapshot.docs[Math.floor(Math.random() * vehicleSnapshot.docs.length)].id
TickTargets(vehicleSnapshot) ==
  {vehicleSnapshot.docs[i].id : i \in 1..Len(vehicleSnapshot.docs)}

\* The ids of the users read, or of initialUsers when none was read.
availableUsers(userSnapshot) ==
  IF userSnapshot.empty THEN {initialUsers[i].f["id"].s : i \in 1..Len(initialUsers)}
  ELSE {userSnapshot.docs[i].id : i \in 1..Len(userSnapshot.docs)}

\* current is target.data() ?? {}.
nextUpdates(current, user, shouldChangePrice, priceDelta) ==
  LET base == ("updatedAt" :> now(DateNow)) @@ ("updatedBy" :> Str(user))
      cur == Spread(current)
      basePrice == IF "book_price" \in DOMAIN cur /\ cur["book_price"].t = "num"
                   THEN cur["book_price"].n ELSE 15000
  IN Obj(IF shouldChangePrice
         THEN ("book_price" :> Num(Max(500, basePrice + priceDelta))) @@ base
         ELSE base)

\* The interval's callback after its await: it returns on an empty read,
\* and otherwise updates one of the vehicles it read.
TickUpdate ==
  /\ sim.micro # <<>>
  /\ Head(sim.micro).task = "tick"
  /\ LET t == Head(sim.micro)
         rest == [sim EXCEPT !.micro = Tail(@)]
     IN IF t.vehicleSnapshot.empty
        THEN CommitSim(Machine, SimResult("tickReturn", collection(Vehicles), Machine), rest)
        ELSE \E id \in TickTargets(t.vehicleSnapshot), user \in availableUsers(t.userSnapshot),
                shouldChangePrice \in BOOLEAN, priceDelta \in PriceDeltas :
                LET target == CHOOSE d \in {t.vehicleSnapshot.docs[i] :
                                              i \in 1..Len(t.vehicleSnapshot.docs)} : d.id = id
                    ref == doc(collection(Vehicles), id)
                    m == updateDocM(Machine, ref,
                                    nextUpdates(SnapData(target), user, shouldChangePrice,
                                                priceDelta))
                IN CommitSim(m, [SimResult("tickUpdate", ref, m) EXCEPT
                                    !.read = TickTargets(t.vehicleSnapshot)],
                             rest)

\* handleSaveEdit after its request, a new vehicle: setDoc with merge when
\* the response has an id, addDoc otherwise; closeEditDialog follows the await.
SaveNew(newId, id) ==
  /\ TaskReady
  /\ LET ref == doc(collection(Vehicles), newId)
         m == IF newId # <<>> THEN setDocM(Machine, ref, localUpdates, TRUE)
              ELSE addDocM(Machine, collection(Vehicles), localUpdates, id)
     IN CommitSim(m, SimResult(IF newId # <<>> THEN "setDoc" ELSE "addDoc", ref, m),
                  [sim EXCEPT !.micro = Append(@, [task |-> "closeEditDialog"])])

\* handleSaveEdit after its request, a vehicle of the list: updateDoc; the
\* catch follows the await when it throws, closeEditDialog otherwise.
SaveEdit(id) ==
  /\ TaskReady
  /\ LET ref == doc(collection(Vehicles), id)
         m == updateDocM(Machine, ref, localUpdates)
     IN CommitSim(m, SimResult("updateDoc", ref, m),
                  [sim EXCEPT !.micro = Append(@, [task |-> IF m.status = "ok"
                                                            THEN "closeEditDialog"
                                                            ELSE "setEditError"])])

\* What follows the dialog's await: state of the component only.
AfterSave ==
  /\ sim.micro # <<>>
  /\ Head(sim.micro).task \in {"closeEditDialog", "setEditError"}
  /\ CommitSim(Machine, SimResult(Head(sim.micro).task, Undefined, Machine),
               [sim EXCEPT !.micro = Tail(@)])

NextSim ==
  \/ Effect
  \/ Cleanup
  \/ TickStart
  \/ TickUpdate
  \/ \E newId \in {<<>>, G}, id \in GenIds : SaveNew(newId, id)
  \/ \E id \in EditIds : SaveEdit(id)
  \/ AfterSave

SpecSim == Init /\ [][NextSim]_vars

\* C30: a tick that read a non-empty vehicles collection updates a document
\* that is there when the update runs: the update does not fail with
\* not-found, its target is one of the ids read and was in the collection
\* right before, and the ids of the collection are the same, in the same
\* order, after the tick as before it; a tick that read an empty collection
\* changes nothing.
C30_TickUpdatesExistingVehicle ==
  /\ res.op = "tickUpdate" =>
        /\ res.status = "ok"
        /\ Target(res).id \in res.read
        /\ InSeq(res.before, Target(res).id)
        /\ VehicleIds(store) = res.before
  /\ res.op = "tickReturn" => VehicleIds(store) = res.before

\* A tick updated the vehicle the dialog had created after the seeding.
C30_Witness ==
  /\ res.op = "tickUpdate"
  /\ Target(res).id = G
  /\ sim.seeded
  /\ res.before = <<X, Y, G>>
  /\ MapGet(CollOf(store, Vehicles), G).f["updatedAt"] = now(DateNow)

(***************************************************************************)
(* The JavaScript copy (src/frontend/src/App.tsx, lines 590-804) beside the *)
(* TypeScript copy.  The statements of the two copies are the same but for  *)
(* the types and for splitDocPath: the JavaScript one has no ?? "" after    *)
(* parts.pop(), so the id of a path without a non-empty segment is          *)
(* undefined.  The operations below are the ones that call splitDocPath,    *)
(* with what they build from the id; addDoc, getDocs, replaceCollection and *)
(* the unsubscribe function, which do not call it, are the operators        *)
(* above.  js is the state of the JavaScript copy.                          *)
(***************************************************************************)
\* The value undefined as an id: no string (the elements of a string are
\* single characters).
UndefinedId == <<"undefined">>

\* `${id}`
TemplateId(id) ==
  IF id = UndefinedId THEN <<"u", "n", "d", "e", "f", "i", "n", "e", "d">> ELSE id

\* parts.pop() of an empty array is undefined.
splitDocPathJs(path) ==
  LET parts == FilterBoolean(Split(path))
  IN IF parts = <<>> THEN [collectionPath |-> <<>>, id |-> UndefinedId]
     ELSE [collectionPath |-> Join(SubSeq(parts, 1, Len(parts) - 1)), id |-> parts[Len(parts)]]

createDocSnapshotJs(collectionPath, id, data) ==
  [kind |-> "doc", id |-> id, data |-> data,
   ref |-> [type |-> "doc", path |-> collectionPath \o Slash \o TemplateId(id)]]

emitDocJs(m, collectionPath, id) ==
  LET st == ensureCollection(m.store, collectionPath)
      data == MapGet(st[collectionPath], id)
      m1 == notify([m EXCEPT !.store = st], collectionPath \o Slash \o TemplateId(id),
                   createDocSnapshotJs(collectionPath, id, data))
  IN emitCollection(m1, collectionPath)

\* { ...collection.get(id), ...clone(data) }
setDocJs(m, docRef, data, merge) ==
  LET sp == splitDocPathJs(docRef.path)
      st == ensureCollection(m.store, sp.collectionPath)
      coll == st[sp.collectionPath]
      next == IF merge /\ MapHas(coll, sp.id)
              THEN SpreadMerge(MapGet(coll, sp.id), clone(data))
              ELSE clone(data)
  IN emitDocJs([m EXCEPT !.store = StoreSet(st, sp.collectionPath, MapSet(coll, sp.id, next))],
               sp.collectionPath, sp.id)

updateDocJs(m, docRef, data) ==
  LET sp == splitDocPathJs(docRef.path)
      st == ensureCollection(m.store, sp.collectionPath)
      coll == st[sp.collectionPath]
  IN IF ~MapHas(coll, sp.id)
     THEN [m EXCEPT !.store = st, !.status = "not-found"]
     ELSE emitDocJs([m EXCEPT !.store = StoreSet(st, sp.collectionPath,
                                 MapSet(coll, sp.id, SpreadMerge(MapGet(coll, sp.id), clone(data))))],
                    sp.collectionPath, sp.id)

deleteDocJs(m, docRef) ==
  LET sp == splitDocPathJs(docRef.path)
      st == ensureCollection(m.store, sp.collectionPath)
  IN emitDocJs([m EXCEPT !.store = StoreSet(st, sp.collectionPath,
                                            MapDelete(st[sp.collectionPath], sp.id))],
               sp.collectionPath, sp.id)

onSnapshotJs(m, ref, cb) ==
  LET subs == IF ref.path \in DOMAIN m.listeners THEN m.listeners[ref.path] ELSE <<>>
      m1 == [m EXCEPT !.listeners = (ref.path :> SetAdd(subs, cb)) @@ m.listeners]
  IN IF ref.type = "collection"
     THEN LET st == ensureCollection(m1.store, ref.path)
          IN Invoke([m1 EXCEPT !.store = st], cb, ref.path,
                    createCollectionSnapshot(st, ref.path), 0)
     ELSE LET sp == splitDocPathJs(ref.path)
              st == ensureCollection(m1.store, sp.collectionPath)
          IN Invoke([m1 EXCEPT !.store = st], cb, ref.path,
                    createDocSnapshotJs(sp.collectionPath, sp.id,
                                        MapGet(st[sp.collectionPath], sp.id)), 0)

MachineJs ==
  [store |-> js.store, listeners |-> js.listeners, last |-> js.last, calls |-> <<>>,
   depth |-> 1, nested |-> 0, notified |-> <<>>, status |-> "ok", regs |-> regs]

\* One call made on both copies: m and r are the TypeScript copy's machine
\* and result, mj and vj the JavaScript copy's machine and returned value.
CommitBoth(m, r, mj, vj) ==
  /\ store' = m.store
  /\ listeners' = m.listeners
  /\ last' = m.last
  /\ calls' = m.calls
  /\ res' = r
  /\ nops' = nops + 1
  /\ regs' = m.regs
  /\ js' = [store |-> mj.store, listeners |-> mj.listeners, last |-> mj.last,
            calls |-> mj.calls, status |-> mj.status, value |-> vj,
            notified |-> mj.notified]
  /\ UNCHANGED <<heap, held, snaps, sim>>

\* References: the collection "c" and the one of the empty path, the
\* document c/x and the document whose path is "/".
BothCollRefs == {collection(C), collection(<<>>)}
BothDocRefs == {doc(collection(C), X), doc(collection(<<>>), <<>>)}
\* Calls in one run of the two copies.
MaxBothOps == 3

BothGetDocs(collectionRef) ==
  LET m == [Machine EXCEPT !.store = ensureCollection(store, collectionRef.path)]
      mj == [MachineJs EXCEPT !.store = ensureCollection(js.store, collectionRef.path)]
  IN CommitBoth(m, Result("getDocs", collectionRef, Undefined, FALSE, m,
                          createCollectionSnapshot(store, collectionRef.path)),
                mj, createCollectionSnapshot(js.store, collectionRef.path))

BothGetDoc(docRef) ==
  LET sp == splitDocPath(docRef.path)
      m == [Machine EXCEPT !.store = ensureCollection(store, sp.collectionPath)]
      spj == splitDocPathJs(docRef.path)
      mj == [MachineJs EXCEPT !.store = ensureCollection(js.store, spj.collectionPath)]
  IN CommitBoth(m, Result("getDoc", docRef, Undefined, FALSE, m,
                          createDocSnapshot(sp.collectionPath, sp.id,
                                            MapGet(m.store[sp.collectionPath], sp.id))),
                mj, createDocSnapshotJs(spj.collectionPath, spj.id,
                                        MapGet(mj.store[spj.collectionPath], spj.id)))

BothAddDoc(collectionRef, data, id) ==
  LET m == addDocM(Machine, collectionRef, data, id)
      mj == addDocM(MachineJs, collectionRef, data, id)
      ref == [type |-> "doc", path |-> collectionRef.path \o Slash \o id]
  IN CommitBoth(m, Result("addDoc", collectionRef, data, FALSE, m, ref), mj, ref)

BothSetDoc(docRef, data, merge) ==
  LET m == setDocM(Machine, docRef, data, merge)
  IN CommitBoth(m, Result("setDoc", docRef, data, merge, m, Undefined),
                setDocJs(MachineJs, docRef, data, merge), Undefined)

BothUpdateDoc(docRef, data) ==
  LET m == updateDocM(Machine, docRef, data)
  IN CommitBoth(m, Result("updateDoc", docRef, data, FALSE, m, Undefined),
                updateDocJs(MachineJs, docRef, data), Undefined)

BothDeleteDoc(docRef) ==
  LET m == deleteDocM(Machine, docRef)
  IN CommitBoth(m, Result("deleteDoc", docRef, Undefined, FALSE, m, Undefined),
                deleteDocJs(MachineJs, docRef), Undefined)

BothOnSnapshot(ref, cb) ==
  /\ Len(regs) < MaxRegs
  /\ LET m == onSnapshotM(Machine, ref, cb)
     IN CommitBoth([m EXCEPT !.regs = Append(m.regs, [path |-> ref.path, cb |-> cb,
                                                      called |-> FALSE])],
                   Result("onSnapshot", ref, Undefined, FALSE, m, Undefined),
                   onSnapshotJs(MachineJs, ref, cb), Undefined)

BothUnsubscribe(i) ==
  /\ i \in 1..Len(regs)
  /\ LET m == [unsubscribeM(Machine, regs[i].path, regs[i].cb) EXCEPT !.regs[i].called = TRUE]
     IN CommitBoth(m, Result("unsubscribe", [type |-> "reg", path |-> regs[i].path, reg |-> i],
                             Undefined, FALSE, m, Undefined),
                   unsubscribeM(MachineJs, regs[i].path, regs[i].cb), Undefined)

BothReplaceCollection(collectionPath, items, optIdField, gen) ==
  LET m == replaceCollectionM(Machine, collectionPath, items, optIdField, gen)
  IN CommitBoth(m, Result("replaceCollection", collection(collectionPath), Arr(items),
                          FALSE, m, [idField |-> optIdField, gen |-> gen]),
                replaceCollectionM(MachineJs, collectionPath, items, optIdField, gen),
                [idField |-> optIdField, gen |-> gen])

NextBoth ==
  \/ \E cr \in BothCollRefs : nops < MaxBothOps /\ BothGetDocs(cr)
  \/ \E dr \in BothDocRefs : nops < MaxBothOps /\ BothGetDoc(dr)
  \/ \E cr \in BothCollRefs, id \in GenIds : nops < MaxBothOps /\ BothAddDoc(cr, FieldsA1, id)
  \/ \E dr \in BothDocRefs, mg \in BOOLEAN : nops < MaxBothOps /\ BothSetDoc(dr, FieldsA1, mg)
  \/ \E dr \in BothDocRefs : nops < MaxBothOps /\ BothUpdateDoc(dr, FieldsA0B2)
  \/ \E dr \in BothDocRefs : nops < MaxBothOps /\ BothDeleteDoc(dr)
  \/ \E r \in BothCollRefs \cup BothDocRefs : nops < MaxBothOps /\ BothOnSnapshot(r, "A")
  \/ \E i \in 1..MaxRegs : nops < MaxBothOps /\ BothUnsubscribe(i)
  \/ nops < MaxBothOps /\ BothReplaceCollection(C, <<ItemX>>, "", <<G>>)

SpecBoth == Init /\ [][NextBoth]_vars

\* C31: after the same calls the two copies have the same store contents
\* and the same registry, their latest call gave the same result or the same
\* error, and it invoked the same callbacks with the same snapshots through
\* the same notified paths.
C31_Original ==
  /\ js.store = store
  /\ js.listeners = listeners
  /\ js.status = res.status
  /\ js.value = res.value
  /\ js.notified = res.notified
  /\ js.calls = calls

\* A set on the document reference of path "/", on which a callback
\* listens: the TypeScript copy stores under the id "" and notifies "/",
\* where the callback is called; the JavaScript copy stores under undefined
\* and notifies "/undefined", where no callback listens.
C31_Witness ==
  /\ res.op = "setDoc"
  /\ res.ref.path = Slash
  /\ MapHas(CollOf(store, <<>>), <<>>)
  /\ MapHas(CollOf(js.store, <<>>), UndefinedId)
  /\ ~MapHas(CollOf(js.store, <<>>), <<>>)
  /\ res.notified = <<Slash, <<>>>>
  /\ js.notified = <<Slash \o TemplateId(UndefinedId), <<>>>>
  /\ Len(calls) = 1
  /\ js.calls = <<>>
====
